---- MODULE Spec2Model ----
(***************************************************************************)
(* Model of the sqlbee admission mutation engine (cmd/sqlbee Mutate,       *)
(* mutatePodSpec, configureContainerAndVolumes) and of the helpers of      *)
(* pkg/sting it uses (AnnotationValue, AnnotationHasValue, CreatePatch,    *)
(* ToAdmissionResponse), of the admission endpoints of the InjectServer    *)
(* (validateContentType, readRequest, handleMutate, handleAdmission,       *)
(* errorResponse) and of its certificate reload (New, getCert).            *)
(*                                                                         *)
(* Go slices are modelled as a backing array plus a length, because the    *)
(* remove-while-ranging loops of mutatePodSpec and CreatePatch read the    *)
(* backing array through the slice header taken when the loop started.     *)
(* A Go run-time panic (slice bounds out of range) is the outcome          *)
(* panicked = TRUE.                                                        *)
(***************************************************************************)
EXTENDS Naturals, Sequences, FiniteSets, TLC

VARIABLES
    opts,       \* Options the Mutate closure was built with
    pc,         \* "idle" | "responded" (Mutate) ; "podspec" (mutator runs) ;
                \* "listening" | "served" (endpoints) ; "tls" (certificate)
    ar,         \* the admission request being answered, or NoRequest
    podSpec,    \* the pod spec *podSpec points to (decoded, then mutated)
    rawPatch,   \* the operations jsonpatch.CreatePatch returned, before filtering
    response,   \* the AdmissionResponse returned by Mutate, or NoResponse
    calls,      \* number of mutatePodSpec applications to podSpec so far
    panicked,   \* the call ended in a Go run-time panic
    srv,        \* the functions the InjectServer was built with
    hreq,       \* the HTTP request being served, or NoHTTPRequest
    hres,       \* what the handler did with it: status, body written, calls made
    proc,       \* the process: "new" | "serving" | "failed" (New returned an error) | "dead"
    certFile,   \* version of the certificate in opts.CertFile
    keyFile,    \* version of the private key in opts.KeyFile (NoVersion: none that loads)
    events,     \* events of the file watcher not yet received
    cert,       \* the key pair i.cert points to
    certLock,   \* the goroutine that holds i.certLock, or Nil
    watcher,    \* the watcher goroutine: its position, the pair and the error of its load
    handshake,  \* per TLS handshake: its position in getCert and the pair returned
    mainPc,     \* Main: "receive" | "ctx" | "goServer" | "goAdmin" | "wait" | "returned" | "exited"
    signal,     \* the signal Main received from gracefulStop, or Nil
    listener,   \* per listener: accepting or closed, and its requests in flight
    shutdown,   \* per listener: the goroutine that runs Shutdown on it
    clock,      \* seconds since shutdownCtx was created
    exit,       \* the status the process exited with, or NoExit
    templates,  \* the package-level values: sidecar container, volume list, volume templates
    call,       \* per concurrent call of the mutate function: position, request, copies, result
    completed   \* number of calls that have returned

handlerVars == <<opts, pc, ar, podSpec, rawPatch, response, calls, panicked>>

serverVars == <<srv, hreq, hres>>

certVars == <<proc, certFile, keyFile, events, cert, certLock, watcher, handshake>>

shutdownVars == <<mainPc, signal, listener, shutdown, clock, exit>>

sharedVars == <<templates, call, completed>>

vars == <<handlerVars, serverVars, certVars, shutdownVars, sharedVars>>

(***************************************************************************)
(* Bounds of the model.                                                    *)
(***************************************************************************)
MaxContainers == 2
MaxVolumes == 3
MaxCalls == 2

Nil == "<nil>"

(***************************************************************************)
(* Package-level values of cmd/sqlbee.                                     *)
(***************************************************************************)
annotationInject == "sqlbee.connctd.io.inject"
annotationImage == "sqlbee.connctd.io.image"
annotationInstance == "sqlbee.connctd.io.instance"
annotationSecret == "sqlbee.connctd.io.secret"
annotationCaMap == "sqlbee.connctd.io.caMap"

defaultImage == "gcr.io/cloudsql-docker/gce-proxy:1.13"

sqlProxyCmd == <<"/cloud_sql_proxy", "-dir=/cloudsql">>

credentialMount == [mountPath |-> "/credentials", name |-> "sql-service-token-account"]

caCertMount == [mountPath |-> "/etc/ssl/certs", name |-> "ca-certificates"]

sqlProxyContainer ==
    [ image |-> defaultImage,
      command |-> sqlProxyCmd,
      volumeMounts |-> << [mountPath |-> "/cloudsql", name |-> "cloudsql"] >>,
      name |-> "cloud-sql-proxy" ]

credentialsVolume ==
    [name |-> "sql-service-token-account", kind |-> "secret",
     ref |-> "cloud-sql-proxy-credentials"]

caCertVolume ==
    [name |-> "sql-ca-certificates", kind |-> "configMap", ref |-> "ca-certificates"]

sqlProxyVolumes == << [name |-> "cloudsql", kind |-> "emptyDir", ref |-> ""] >>

\* the package-level values every call of Mutate starts from
packageVars ==
    [ container |-> sqlProxyContainer,
      volumes |-> sqlProxyVolumes,
      credentialsVolume |-> credentialsVolume,
      caCertVolume |-> caCertVolume ]

ignoredNamespaces == <<"kube-system", "kube-public">>

podResource == [Group |-> "", Version |-> "v1", Resource |-> "pods"]

deploymentResource == [Group |-> "apps", Version |-> "v1", Resource |-> "deployments"]

legacyDeploymentResource ==
    [Group |-> "extensions", Version |-> "v1beta1", Resource |-> "deployments"]

(***************************************************************************)
(* Sequence helpers.                                                       *)
(***************************************************************************)
Range(s) == {s[i] : i \in DOMAIN s}

SeqsUpTo(S, n) == UNION {[1..k -> S] : k \in 0..n}

(***************************************************************************)
(* pkg/sting: annotations.  A Go map[string]string is a function whose     *)
(* DOMAIN is the set of keys present.                                      *)
(***************************************************************************)
getAnnotations(obj) == obj.annotations

AnnotationHasValue(obj, key, val) ==
    LET annotations == getAnnotations(obj)
    IN  key \in DOMAIN annotations /\ annotations[key] = val

\* mutant: an annotation set to the empty string counts as absent
AnnotationValue_emptyIsAbsent(obj, key, def) ==
    LET annotations == getAnnotations(obj)
    IN  IF key \in DOMAIN annotations /\ annotations[key] # ""
        THEN annotations[key] ELSE def

AnnotationValue(obj, key, def) ==
    LET annotations == getAnnotations(obj)
    IN  IF key \in DOMAIN annotations THEN annotations[key] ELSE def

(***************************************************************************)
(* configureContainerAndVolumes: fills the request's copy of the sidecar   *)
(* container and of the volume list from the annotations and the options.  *)
(***************************************************************************)
\* mutant: the flag is written without its leading dash
instanceFlag_noDash(instance) == "instances=" \o instance \o "=tcp:127.0.0.1:3306"

instanceFlag(instance) == "-instances=" \o instance \o "=tcp:127.0.0.1:3306"

\* mutant: the credential flag is appended after the instance flag, and the
\* CA volume before the credentials volume
configureWith_misordered(t, obj, container, volumes, o) ==
    LET image == AnnotationValue(obj, annotationImage, defaultImage)
        instance == AnnotationValue(obj, annotationInstance, o.DefaultInstance)
        secretName == AnnotationValue(obj, annotationSecret, o.DefaultSecretName)
        caConfigName == AnnotationValue(obj, annotationCaMap, o.DefaultCertVolume)
        creds == IF secretName # ""
                 THEN <<[t.credentialsVolume EXCEPT !.ref = secretName]>> ELSE <<>>
        cas == IF caConfigName # ""
               THEN <<[t.caCertVolume EXCEPT !.ref = caConfigName]>> ELSE <<>>
    IN  [ container |->
            [container EXCEPT
               !.image = image,
               !.volumeMounts = container.volumeMounts
                                  \o (IF secretName # "" THEN <<credentialMount>> ELSE <<>>)
                                  \o (IF caConfigName # "" THEN <<caCertMount>> ELSE <<>>),
               !.command = Append(sqlProxyCmd, instanceFlag(instance))
                             \o (IF secretName # ""
                                 THEN <<"-credential_file=/credentials/credentials.json">>
                                 ELSE <<>>)],
          volumes |-> volumes \o cas \o creds ]

\* the builder, with the credential and CA volume templates it copies read from t
configureWith(t, obj, container, volumes, o) ==
    LET image == AnnotationValue(obj, annotationImage, defaultImage)
        instance == AnnotationValue(obj, annotationInstance, o.DefaultInstance)
        secretName == AnnotationValue(obj, annotationSecret, o.DefaultSecretName)
        caConfigName == AnnotationValue(obj, annotationCaMap, o.DefaultCertVolume)
        mounts1 == IF secretName # ""
                   THEN Append(container.volumeMounts, credentialMount)
                   ELSE container.volumeMounts
        vols1 == IF secretName # ""
                 THEN Append(volumes, [t.credentialsVolume EXCEPT !.ref = secretName])
                 ELSE volumes
        cmd1 == IF secretName # ""
                THEN Append(sqlProxyCmd, "-credential_file=/credentials/credentials.json")
                ELSE sqlProxyCmd
        mounts2 == IF caConfigName # "" THEN Append(mounts1, caCertMount) ELSE mounts1
        vols2 == IF caConfigName # ""
                 THEN Append(vols1, [t.caCertVolume EXCEPT !.ref = caConfigName])
                 ELSE vols1
        cmd2 == Append(cmd1, instanceFlag(instance))
    IN  [ container |-> [container EXCEPT !.image = image,
                                          !.volumeMounts = mounts2,
                                          !.command = cmd2],
          volumes |-> vols2 ]

configureContainerAndVolumes(obj, container, volumes, o) ==
    configureWith(packageVars, obj, container, volumes, o)

(***************************************************************************)
(* mutatePodSpec.                                                          *)
(***************************************************************************)
matchesProxy(container, proxyContainer) ==
    container.image = proxyContainer.image \/ container.name = proxyContainer.name

isReservedVolume(volume) ==
    \/ volume.name = "cloudsql"
    \/ volume.name = "sql-service-token-account"
    \/ volume.name = "sql-ca-certificates"

\* append(s[:i], s[i+1:]...) for a 1-based position i of s
RemoveAt(s, i) == SubSeq(s, 1, i - 1) \o SubSeq(s, i + 1, Len(s))

\* The first loop: the first matching container is removed, then break.
removeFirstProxy(containers, proxyContainer) ==
    LET hits == {i \in DOMAIN containers : matchesProxy(containers[i], proxyContainer)}
    IN  IF hits = {} THEN containers
        ELSE RemoveAt(containers, CHOOSE i \in hits : \A j \in hits : i <= j)

\* The second loop, `for i, volume := range podSpec.Volumes`, from 1-based
\* position i on.  backing is the array the range reads (its length is the
\* length of the slice when the loop started), len the current length of
\* podSpec.Volumes.  A removal shifts the tail of the current slice left in
\* place; podSpec.Volumes[i+1:] panics when i+1 exceeds the current length.
RECURSIVE removeReservedVolumes(_, _, _)
removeReservedVolumes(backing, len, i) ==
    IF i > Len(backing)
    THEN [volumes |-> SubSeq(backing, 1, len), panicked |-> FALSE]
    ELSE IF ~isReservedVolume(backing[i])
    THEN removeReservedVolumes(backing, len, i + 1)
    ELSE IF i > len
    THEN [volumes |-> SubSeq(backing, 1, len), panicked |-> TRUE]
    ELSE removeReservedVolumes(
             [k \in DOMAIN backing |->
                 IF k >= i /\ k < len THEN backing[k + 1] ELSE backing[k]],
             len - 1, i + 1)

mutatePodSpec(volumes, proxyContainer, spec) ==
    LET containers == Append(removeFirstProxy(spec.containers, proxyContainer),
                             proxyContainer)
        removed == removeReservedVolumes(spec.volumes, Len(spec.volumes), 1)
    IN  [ podSpec |-> [containers |-> containers,
                       volumes |-> IF removed.panicked THEN removed.volumes
                                   ELSE removed.volumes \o volumes],
          panicked |-> removed.panicked ]

(***************************************************************************)
(* JSON documents.  The raw document of a request carries, besides the     *)
(* typed fields, the information which of the keys the canonical encoder   *)
(* (sting.Marshaler) always writes are present in it: keys is a subset of  *)
(* EncoderKeys(kind), and each raw container says whether it has a         *)
(* "resources" key.  Decoding drops that information, encoding writes      *)
(* every such key.                                                         *)
(***************************************************************************)
EncoderKeys(kind) ==
    IF kind = "Deployment"
    THEN {"status", "creationTimestamp", "templateCreationTimestamp", "strategy"}
    ELSE {"status", "creationTimestamp"}

DecodeContainer(rc) == [f \in DOMAIN rc \ {"resourcesKey"} |-> rc[f]]

EncodeContainer(c) == c @@ [resourcesKey |-> TRUE]

DecodeSpec(raw) ==
    [ containers |-> [i \in DOMAIN raw.containers |-> DecodeContainer(raw.containers[i])],
      volumes |-> raw.volumes ]

EncodeSpec(spec) ==
    [ containers |-> [i \in DOMAIN spec.containers |-> EncodeContainer(spec.containers[i])],
      volumes |-> spec.volumes ]

\* Marshaler.Encode of the typed object whose pod spec is spec
Encode(obj, spec) ==
    [ kind |-> obj.kind, annotations |-> obj.annotations,
      spec |-> EncodeSpec(spec), keys |-> EncoderKeys(obj.kind) ]

(***************************************************************************)
(* jsonpatch.CreatePatch(a, b): one operation per object member that       *)
(* differs (add when a lacks the key, replace when the values differ,      *)
(* remove when b lacks it), recursively for nested objects; arrays of      *)
(* equal length are compared element by element, arrays of different       *)
(* length by compareArray (remove what b lacks, then add what a lacks).    *)
(* Members are visited in Go map order: order is the order of the three    *)
(* top-level members that can differ.                                      *)
(***************************************************************************)
Op(op, path, value) == [op |-> op, path |-> path, value |-> value]

ItemPath(p, i) == p \o "/" \o ToString(i - 1)

RECURSIVE ConcatAll(_)
ConcatAll(ss) == IF ss = <<>> THEN <<>> ELSE Head(ss) \o ConcatAll(Tail(ss))

compareArray(a, b, p) ==
    ConcatAll([i \in DOMAIN a |->
                 IF a[i] \in Range(b) THEN <<>>
                 ELSE <<Op("remove", ItemPath(p, i), Nil)>>])
    \o
    ConcatAll([i \in DOMAIN b |->
                 IF b[i] \in Range(a) THEN <<>>
                 ELSE <<Op("add", ItemPath(p, i), b[i])>>])

\* a scalar member present in both documents
scalarOps(a, b, p) == IF a = b THEN <<>> ELSE <<Op("replace", p, b)>>

\* an array member, omitted from a document when empty; each holds the
\* operations of the element-wise comparison (arrays of equal length)
arrayOps(a, b, p, each) ==
    IF a = <<>> /\ b = <<>> THEN <<>>
    ELSE IF a = <<>> THEN <<Op("add", p, b)>>
    ELSE IF b = <<>> THEN <<Op("remove", p, Nil)>>
    ELSE IF Len(a) # Len(b) THEN compareArray(a, b, p)
    ELSE ConcatAll(each)

commandOps(a, b, p) ==
    arrayOps(a, b, p,
             IF Len(a) # Len(b) THEN <<>>
             ELSE [i \in DOMAIN a |-> scalarOps(a[i], b[i], ItemPath(p, i))])

mountOps(a, b, p) ==
    scalarOps(a.mountPath, b.mountPath, p \o "/mountPath")
    \o scalarOps(a.name, b.name, p \o "/name")

mountsOps(a, b, p) ==
    arrayOps(a, b, p,
             IF Len(a) # Len(b) THEN <<>>
             ELSE [i \in DOMAIN a |-> mountOps(a[i], b[i], ItemPath(p, i))])

containerOps(a, b, p) ==
    commandOps(a.command, b.command, p \o "/command")
    \o scalarOps(a.image, b.image, p \o "/image")
    \o scalarOps(a.name, b.name, p \o "/name")
    \o (IF a.resourcesKey THEN <<>> ELSE <<Op("add", p \o "/resources", "{}")>>)
    \o mountsOps(a.volumeMounts, b.volumeMounts, p \o "/volumeMounts")

containersOps(a, b, p) ==
    arrayOps(a, b, p,
             IF Len(a) # Len(b) THEN <<>>
             ELSE [i \in DOMAIN a |-> containerOps(a[i], b[i], ItemPath(p, i))])

volumeOps(a, b, p) ==
    scalarOps(a.name, b.name, p \o "/name")
    \o scalarOps(<<a.kind, a.ref>>, <<b.kind, b.ref>>, p \o "/" \o b.kind)

volumesOps(a, b, p) ==
    arrayOps(a, b, p,
             IF Len(a) # Len(b) THEN <<>>
             ELSE [i \in DOMAIN a |-> volumeOps(a[i], b[i], ItemPath(p, i))])

podSpecOps(a, b, p) ==
    containersOps(a.containers, b.containers, p \o "/containers")
    \o volumesOps(a.volumes, b.volumes, p \o "/volumes")

memberOps(a, b, member) ==
    CASE member = "metadata" ->
           IF "creationTimestamp" \in a.keys THEN <<>>
           ELSE <<Op("add", "/metadata/creationTimestamp", "null")>>
      [] member = "status" ->
           IF "status" \in a.keys THEN <<>> ELSE <<Op("add", "/status", "{}")>>
      [] member = "spec" ->
           IF a.kind = "Deployment"
           THEN (IF "strategy" \in a.keys THEN <<>>
                 ELSE <<Op("add", "/spec/strategy", "{}")>>)
                \o (IF "templateCreationTimestamp" \in a.keys THEN <<>>
                    ELSE <<Op("add", "/spec/template/metadata/creationTimestamp", "null")>>)
                \o podSpecOps(a.spec, b.spec, "/spec/template/spec")
           ELSE podSpecOps(a.spec, b.spec, "/spec")

OrderSeqs ==
    { s \in [1..3 -> {"metadata", "spec", "status"}] : Range(s) = {"metadata", "spec", "status"} }

jsonpatchCreatePatch(a, b, order) ==
    ConcatAll([i \in DOMAIN order |-> memberOps(a, b, order[i])])

(***************************************************************************)
(* pkg/sting: CreatePatch and ToAdmissionResponse.                         *)
(***************************************************************************)
\* mutant: /status is missing from the denylist
ignoredPatchPaths_noStatus ==
    <<"/spec/template/metadata/creationTimestamp", "/metadata/creationTimestamp">>

ignoredPatchPaths ==
    <<"/spec/template/metadata/creationTimestamp", "/status", "/metadata/creationTimestamp">>

\* `for i, p := range patch { if p.Path == path { patch = append(patch[:i],
\* patch[i+1:]...) } }` from 1-based position i on; backing and len as in
\* removeReservedVolumes.
RECURSIVE removeIgnoredPath(_, _, _, _)
removeIgnoredPath(backing, len, i, path) ==
    IF i > Len(backing)
    THEN [patch |-> SubSeq(backing, 1, len), panicked |-> FALSE]
    ELSE IF backing[i].path # path
    THEN removeIgnoredPath(backing, len, i + 1, path)
    ELSE IF i > len
    THEN [patch |-> SubSeq(backing, 1, len), panicked |-> TRUE]
    ELSE removeIgnoredPath(
             [k \in DOMAIN backing |->
                 IF k >= i /\ k < len THEN backing[k + 1] ELSE backing[k]],
             len - 1, i + 1, path)

\* the outer loop over ignoredPatchPaths, from the k-th path on
RECURSIVE filterIgnored(_, _)
filterIgnored(patch, k) ==
    IF k > Len(ignoredPatchPaths) THEN [patch |-> patch, panicked |-> FALSE]
    ELSE LET r == removeIgnoredPath(patch, Len(patch), 1, ignoredPatchPaths[k])
         IN  IF r.panicked THEN r ELSE filterIgnored(r.patch, k + 1)

\* a nil byte slice
NilBytes == [isNil |-> TRUE, jsonPatch |-> <<>>]

\* json.Marshal of a (non-nil) operation list: "[" ... "]"
Marshal(patch) == [isNil |-> FALSE, jsonPatch |-> patch]

\* len() of a byte slice: the brackets and at least one byte per operation
BytesLen(bytes) == IF bytes.isNil THEN 0 ELSE 2 + Len(bytes.jsonPatch)

CreatePatchOf(patch) ==
    IF Len(patch) > 0
    THEN LET r == filterIgnored(patch, 1)
         IN  [bytes |-> IF r.panicked THEN NilBytes ELSE Marshal(r.patch),
              panicked |-> r.panicked]
    ELSE [bytes |-> NilBytes, panicked |-> FALSE]

CreatePatch(mutatedObj, mutatedSpec, objRaw, order) ==
    LET patch == jsonpatchCreatePatch(objRaw, Encode(mutatedObj, mutatedSpec), order)
    IN  CreatePatchOf(patch) @@ [unfiltered |-> patch]

\* the zero AdmissionResponse; Result is the message of the Status, or Nil
NoResponse == [Allowed |-> FALSE, Patch |-> NilBytes, PatchType |-> Nil, Result |-> Nil]

ToAdmissionResponse(err) == [NoResponse EXCEPT !.Result = err]

(***************************************************************************)
(* Inputs.  An object is the decoded form of Request.Object.Raw together   *)
(* with what the raw JSON document says beyond the typed fields: which of  *)
(* the keys the canonical encoder always writes are present in it.         *)
(***************************************************************************)
NoPodSpec == [containers |-> <<>>, volumes |-> <<>>]

\* a payload the deserializer rejects
Garbage == [kind |-> "<undecodable>", annotations |-> <<>>, spec |-> NoPodSpec, keys |-> {}]

NoRequest ==
    [Namespace |-> Nil, Resource |-> [Group |-> Nil, Version |-> Nil, Resource |-> Nil],
     Object |-> Garbage]

appContainer ==
    [ image |-> "wordpress:4.8-apache", command |-> <<>>,
      volumeMounts |-> << [mountPath |-> "/var/www/html", name |-> "data"] >>,
      name |-> "wordpress" ]

\* containers an incoming pod spec may already hold: the application, a
\* sidecar of an earlier injection, and containers that share only the
\* sidecar's name or only its image
InputContainers ==
    { appContainer,
      [sqlProxyContainer EXCEPT !.command = Append(sqlProxyCmd, instanceFlag("old:old:old"))],
      [appContainer EXCEPT !.name = "cloud-sql-proxy"],
      [appContainer EXCEPT !.image = defaultImage] }

InputVolumes ==
    { [name |-> "data", kind |-> "pvc", ref |-> "wp-pv-claim"],
      [name |-> "cloudsql", kind |-> "emptyDir", ref |-> ""],
      [name |-> "sql-service-token-account", kind |-> "secret", ref |-> "db-credentials"],
      [name |-> "sql-ca-certificates", kind |-> "configMap", ref |-> "root-certs"] }

InputPodSpecs ==
    { [containers |-> cs, volumes |-> vs] :
        cs \in SeqsUpTo(InputContainers, MaxContainers),
        vs \in SeqsUpTo(InputVolumes, MaxVolumes) }

\* the annotation maps that give each key k a value of choice[k], or leave
\* it out when the choice is Nil
AnnotationMaps(choice) ==
    LET keys == DOMAIN choice
        all == UNION {choice[k] : k \in keys}
    IN  { [k \in {x \in keys : f[x] # Nil} |-> f[k]] :
            f \in {g \in [keys -> all] : \A k \in keys : g[k] \in choice[k]} }

(***************************************************************************)
(* Mutate: the function Mutate(opts) returns, applied to one request.      *)
(* The outcome is the response returned, the pod spec *podSpec points to   *)
(* at the end, the unfiltered patch, and whether the call panicked.        *)
(***************************************************************************)
WrongResourceError == "Wrong resource type"

DecodeError == "couldn't decode object"

InstanceError ==
    "Instance is not specified via defaults or via annotation " \o annotationInstance

PatchTypeJSONPatch == "JSONPatch"

allowedResponse == [NoResponse EXCEPT !.Allowed = TRUE]

Outcome(resp, spec, unfiltered, pan) ==
    [response |-> resp, podSpec |-> spec, rawPatch |-> unfiltered, panicked |-> pan]

\* mutant: only the first ignored namespace is compared
inIgnoredNamespace_firstOnly(req) == req.Namespace = ignoredNamespaces[1]

inIgnoredNamespace(req) ==
    \E i \in DOMAIN ignoredNamespaces : req.Namespace = ignoredNamespaces[i]

\* mutant: a deployment is recognised by its full descriptor only
isSupportedResource_exactDeployment(req) ==
    req.Resource = podResource \/ req.Resource = deploymentResource

\* mutant: a pod is recognised by its resource name only
isSupportedResource_byResourceName(req) ==
    req.Resource.Resource \in {"pods", "deployments"}

isSupportedResource(req) ==
    req.Resource = podResource \/ req.Resource.Resource = "deployments"

\* mutant: RequireAnnotation is not consulted, the gate is always opt-out
skippedByAnnotation_optOutOnly(o, obj) == AnnotationHasValue(obj, annotationInject, "false")

\* mutant: RequireAnnotation is not consulted, the gate is always opt-in
skippedByAnnotation_optInOnly(o, obj) == ~AnnotationHasValue(obj, annotationInject, "true")

skippedByAnnotation(o, obj) ==
    \/ o.RequireAnnotation /\ ~AnnotationHasValue(obj, annotationInject, "true")
    \/ ~o.RequireAnnotation /\ AnnotationHasValue(obj, annotationInject, "false")

\* mutant: only an instance annotation that is present and empty is refused
instanceMissing_emptyAnnotationOnly(o, obj) ==
    AnnotationHasValue(obj, annotationInstance, "")

instanceMissing(o, obj) == AnnotationValue(obj, annotationInstance, o.DefaultInstance) = ""

\* mutant: the patch is set without its type
patchedResponse_noPatchType(bytes) ==
    IF BytesLen(bytes) > 0 THEN [allowedResponse EXCEPT !.Patch = bytes] ELSE allowedResponse

patchedResponse(bytes) ==
    IF BytesLen(bytes) > 0
    THEN [allowedResponse EXCEPT !.Patch = bytes, !.PatchType = PatchTypeJSONPatch]
    ELSE allowedResponse

\* Mutate on the call's copies (container, volumes) of the package-level values t
MutateFrom(t, container, volumes, o, req, order) ==
    IF inIgnoredNamespace(req) THEN Outcome(allowedResponse, NoPodSpec, <<>>, FALSE)
    ELSE IF ~isSupportedResource(req)
    THEN Outcome(ToAdmissionResponse(WrongResourceError), NoPodSpec, <<>>, FALSE)
    ELSE IF req.Object.kind = Garbage.kind
    THEN Outcome(ToAdmissionResponse(DecodeError), NoPodSpec, <<>>, FALSE)
    ELSE
    LET obj == req.Object
        spec == DecodeSpec(obj.spec)
    IN  IF skippedByAnnotation(o, obj) THEN Outcome(allowedResponse, spec, <<>>, FALSE)
        ELSE IF instanceMissing(o, obj)
        THEN Outcome(ToAdmissionResponse(InstanceError), spec, <<>>, FALSE)
        ELSE
        LET cfg == configureWith(t, obj, container, volumes, o)
            m == mutatePodSpec(cfg.volumes, cfg.container, spec)
        IN  IF m.panicked THEN Outcome(NoResponse, m.podSpec, <<>>, TRUE)
            ELSE
            LET cp == CreatePatch(obj, m.podSpec, obj, order)
            IN  IF cp.panicked THEN Outcome(NoResponse, m.podSpec, cp.unfiltered, TRUE)
                ELSE Outcome(patchedResponse(cp.bytes), m.podSpec, cp.unfiltered, FALSE)

Mutate(o, req, order) ==
    MutateFrom(packageVars, sqlProxyContainer, sqlProxyVolumes, o, req, order)

(***************************************************************************)
(* The admission handler: one Mutate call per request, no state kept       *)
(* between requests.                                                       *)
(***************************************************************************)
OptionsSet ==
    [ DefaultInstance : {"", "proj:region:instance"},
      DefaultSecretName : {"", "db-credentials"},
      DefaultCertVolume : {"", "root-certs"},
      RequireAnnotation : BOOLEAN ]

\* every combination of the five annotations, each absent, empty or set
AllAnnotations ==
    AnnotationMaps((annotationInject :> {Nil, "true", "false", "yes"})
                   @@ (annotationImage :> {Nil, "", "proxy:custom"})
                   @@ (annotationInstance :> {Nil, "", "other:region:db"})
                   @@ (annotationSecret :> {Nil, "", "my-secret"})
                   @@ (annotationCaMap :> {Nil, "", "my-ca"}))

\* the annotations the decisions of Mutate depend on
GateAnnotations ==
    AnnotationMaps((annotationInject :> {Nil, "true", "false", "yes"})
                   @@ (annotationInstance :> {Nil, "", "other:region:db"})
                   @@ (annotationSecret :> {Nil, "my-secret"}))

RequestResources ==
    { podResource, deploymentResource, legacyDeploymentResource,
      [Group |-> "", Version |-> "v1", Resource |-> "services"],
      [Group |-> "apps", Version |-> "v1", Resource |-> "pods"] }

RequestNamespaces == {"default", "kube-system", "kube-public"}

defaultOptions ==
    [DefaultInstance |-> "proj:region:instance", DefaultSecretName |-> "",
     DefaultCertVolume |-> "", RequireAnnotation |-> FALSE]

cleanSpec ==
    [ containers |-> <<appContainer>>,
      volumes |-> << [name |-> "data", kind |-> "pvc", ref |-> "wp-pv-claim"] >> ]

\* cleanSpec after an injection under options o and no annotations
injectedSpec(o) ==
    LET cfg == configureContainerAndVolumes([annotations |-> <<>>], sqlProxyContainer,
                                            sqlProxyVolumes, o)
    IN  mutatePodSpec(cfg.volumes, cfg.container, cleanSpec).podSpec

RequestPodSpecs ==
    { cleanSpec, injectedSpec(defaultOptions),
      injectedSpec([defaultOptions EXCEPT !.DefaultSecretName = "db-credentials"]) }

\* the raw document of a typed object: form.keys are the encoder-written
\* keys the document holds, form.resources says whether its containers
\* have a "resources" key
RawObject(kind, a, spec, form) ==
    [ kind |-> kind, annotations |-> a,
      spec |-> [ containers |-> [i \in DOMAIN spec.containers |->
                                    spec.containers[i] @@ [resourcesKey |-> form.resources]],
                 volumes |-> spec.volumes ],
      keys |-> form.keys \cap EncoderKeys(kind) ]

\* a hand-written manifest, a canonical document, and a document that lacks
\* exactly the server-managed keys
RawForms ==
    { [keys |-> {}, resources |-> FALSE],
      [keys |-> EncoderKeys("Deployment"), resources |-> TRUE],
      [keys |-> {"strategy"}, resources |-> TRUE] }

KindOf(resource) == IF resource.Resource = "deployments" THEN "Deployment" ELSE "Pod"

\* every annotation map on the plain pod; and every namespace, resource,
\* pod spec and document form with the annotations the decisions depend on
Requests ==
    { [Namespace |-> "default", Resource |-> podResource,
       Object |-> RawObject("Pod", a, cleanSpec, [keys |-> {}, resources |-> FALSE])] :
        a \in AllAnnotations }
    \cup
    UNION { { [Namespace |-> ns, Resource |-> res, Object |-> obj] :
                ns \in RequestNamespaces,
                obj \in {Garbage} \cup
                        { RawObject(KindOf(res), a, spec, form) :
                            a \in GateAnnotations, spec \in RequestPodSpecs,
                            form \in RawForms } } :
            res \in RequestResources }

reachesPatch(o, req) ==
    /\ ~inIgnoredNamespace(req)
    /\ isSupportedResource(req)
    /\ req.Object.kind # Garbage.kind
    /\ ~skippedByAnnotation(o, req.Object)
    /\ ~instanceMissing(o, req.Object)

\* the member orders the diff may take for the request (one when it is not run)
MemberOrders(o, req) ==
    IF reachesPatch(o, req) THEN OrderSeqs ELSE {<<"metadata", "spec", "status">>}

(***************************************************************************)
(* pkg/sting: the admission endpoints of the InjectServer.  An HTTP        *)
(* request is its path, its Content-Type header and its body; the body is  *)
(* described by what ioutil.ReadAll and json.Unmarshal make of it.  The    *)
(* result of serving a request is the status written (NoStatus when the    *)
(* handler wrote nothing), the admission review written, the text written  *)
(* after it, whether the body was read and which of the configured         *)
(* functions were invoked.                                                 *)
(***************************************************************************)
mutatePath == "/api/v1beta/mutate"

admitPath == "/api/v1beta/admit"

StatusOK == 200

StatusBadRequest == 400

StatusNotAcceptable == 406

StatusUnsupportedMediaType == 415

StatusInternalServerError == 500

\* nothing was written: the handler panicked and net/http dropped the connection
NoStatus == 0

\* the zero value of types.UID
NoUID == ""

\* the server cmd/sqlbee builds: Mutate only
sqlbeeServer == [mutate |-> "Mutate", needsMutate |-> FALSE, isAdmitted |-> FALSE]

NoBody == [form |-> "empty", uid |-> NoUID, request |-> NoRequest]

NoHTTPRequest == [path |-> Nil, contentType |-> Nil, body |-> NoBody]

\* the AdmissionReview written to the response body, if any
NoWritten == [written |-> FALSE, UID |-> NoUID, Response |-> NoResponse]

HTTPResult(status, review, text, bodyRead, invoked, pan) ==
    [status |-> status, review |-> review, text |-> text,
     bodyRead |-> bodyRead, invoked |-> invoked, panicked |-> pan]

NoHTTPResult == HTTPResult(NoStatus, NoWritten, "", FALSE, {}, FALSE)

\* what a handler returns to the action: the HTTP result, the request the
\* mutate function was applied to, and the outcome of that call
NoOutcome == Outcome(NoResponse, NoPodSpec, <<>>, FALSE)

Handled(http, req, out) == [http |-> http, ar |-> req, out |-> out]

\* mutant: a content type with parameters passes too
allowedContentType_withParameters(contentType) ==
    contentType \in {"application/json", "application/json; charset=utf-8"}

\* validateContentType("application/json"): allowed[contentType]
allowedContentType(contentType) == contentType = "application/json"

\* http.Error(w, ..., http.StatusUnsupportedMediaType)
unsupportedMediaType ==
    HTTPResult(StatusUnsupportedMediaType, NoWritten,
               "invalid Content-Type, want application/json", FALSE, {}, FALSE)

\* the *AdmissionReview a handler holds: nil, or a review with or without Request
NilReview == [isNil |-> TRUE, hasRequest |-> FALSE, UID |-> NoUID, Request |-> NoRequest]

\* json.Unmarshal(body, &ar): a syntax error leaves ar zero, a type error
\* fills what it can (here: the request and its UID) and reports the error
Unmarshal(body) ==
    CASE body.form = "syntax" ->
           [err |-> "invalid character", ar |-> [NilReview EXCEPT !.isNil = FALSE]]
      [] body.form = "type" ->
           [err |-> "json: cannot unmarshal",
            ar |-> [isNil |-> FALSE, hasRequest |-> TRUE, UID |-> body.uid,
                    Request |-> NoRequest]]
      [] body.form = "norequest" ->
           [err |-> Nil, ar |-> [NilReview EXCEPT !.isNil = FALSE]]
      [] OTHER ->
           [err |-> Nil,
            ar |-> [isNil |-> FALSE, hasRequest |-> TRUE, UID |-> body.uid,
                    Request |-> body.request]]

\* mutant: the UID of the request is not copied into the error response
errorResponse_noUID(err, status, review) ==
    HTTPResult(status, [written |-> TRUE, UID |-> NoUID, Response |-> ToAdmissionResponse(err)],
               "[ERROR]: %!s(<nil>)", TRUE, {}, FALSE)

errorResponse(err, status, review) ==
    HTTPResult(status,
               [written |-> TRUE,
                UID |-> IF ~review.isNil /\ review.hasRequest THEN review.UID ELSE NoUID,
                Response |-> ToAdmissionResponse(err)],
               "[ERROR]: %!s(<nil>)", TRUE, {}, FALSE)

\* mutant: the error of json.Unmarshal is answered but the review is returned
readRequest_unmarshalErrorNotReturned(r) ==
    IF r.body.form = "unreadable"
    THEN [ok |-> FALSE, ar |-> NilReview,
          http |-> errorResponse("Failed to read request body", StatusBadRequest, NilReview)]
    ELSE IF r.body.form = "empty"
    THEN [ok |-> FALSE, ar |-> NilReview,
          http |-> errorResponse("Request body is empty", StatusBadRequest, NilReview)]
    ELSE [ok |-> TRUE, ar |-> Unmarshal(r.body).ar, http |-> NoHTTPResult]

readRequest(r) ==
    IF r.body.form = "unreadable"
    THEN [ok |-> FALSE, ar |-> NilReview,
          http |-> errorResponse("Failed to read request body", StatusBadRequest, NilReview)]
    ELSE IF r.body.form = "empty"
    THEN [ok |-> FALSE, ar |-> NilReview,
          http |-> errorResponse("Request body is empty", StatusBadRequest, NilReview)]
    ELSE LET u == Unmarshal(r.body)
         IN  IF u.err # Nil
             THEN [ok |-> FALSE, ar |-> NilReview,
                   http |-> errorResponse(u.err, StatusBadRequest, u.ar)]
             ELSE [ok |-> TRUE, ar |-> u.ar, http |-> NoHTTPResult]

\* mutant: a rejection is written with a 4xx status
encodeReview_statusByDecision(review, resp, invoked) ==
    HTTPResult(IF resp.Allowed THEN StatusOK ELSE StatusNotAcceptable,
               [written |-> TRUE,
                UID |-> IF review.hasRequest THEN review.UID ELSE NoUID,
                Response |-> resp],
               "", TRUE, invoked, FALSE)

\* response.Response.UID = ar.Request.UID; json.NewEncoder(w).Encode(response):
\* the first write sends the implicit status 200
encodeReview(review, resp, invoked) ==
    HTTPResult(StatusOK,
               [written |-> TRUE,
                UID |-> IF review.hasRequest THEN review.UID ELSE NoUID,
                Response |-> resp],
               "", TRUE, invoked, FALSE)

\* the handler goroutine panics: nothing is written
handlerPanic(invoked) == HTTPResult(NoStatus, NoWritten, "", TRUE, invoked, TRUE)

withInvoked(http, invoked) == [http EXCEPT !.invoked = invoked]

needsNoMutation ==
    [allowedResponse EXCEPT !.Result = "This resource does not need mutation"]

\* handleMutate for server s whose mutate function is Mutate(o) (or a
\* function that returns nil); needs is what needsMutate answers, order the
\* member order of the diff
handleMutate(s, o, r, needs, order) ==
    LET rr == readRequest(r)
        asked == IF s.needsMutate THEN {"needsMutate"} ELSE {}
    IN  IF ~rr.ok THEN Handled(rr.http, NoRequest, NoOutcome)
        ELSE IF ~rr.ar.hasRequest
        THEN Handled(handlerPanic(asked), NoRequest, NoOutcome)
        ELSE IF s.needsMutate /\ ~needs
        THEN Handled(encodeReview(rr.ar, needsNoMutation, asked), NoRequest, NoOutcome)
        ELSE IF s.mutate # "Mutate"
        THEN Handled(withInvoked(errorResponse("Failed to generate admission response",
                                               StatusInternalServerError, rr.ar),
                                 asked \cup {"mutate"}),
                     NoRequest, NoOutcome)
        ELSE LET out == Mutate(o, rr.ar.Request, order)
             IN  IF out.panicked
                 THEN Handled(handlerPanic(asked \cup {"mutate"}), rr.ar.Request, out)
                 ELSE Handled(encodeReview(rr.ar, out.response, asked \cup {"mutate"}),
                              rr.ar.Request, out)

\* what an IsAdmittedFunc may return
AdmitOutcomes ==
    { [isNil |-> FALSE, resp |-> allowedResponse, err |-> Nil],
      [isNil |-> FALSE, resp |-> ToAdmissionResponse("denied"), err |-> Nil],
      [isNil |-> TRUE, resp |-> NoResponse, err |-> "admission failed"],
      [isNil |-> TRUE, resp |-> NoResponse, err |-> Nil] }

\* a review with a null response is written
nullResponseReview(invoked) ==
    HTTPResult(StatusOK, [NoWritten EXCEPT !.written = TRUE], "", TRUE, invoked, FALSE)

handleAdmission(r, admitted) ==
    LET rr == readRequest(r)
    IN  IF ~rr.ok THEN rr.http
        ELSE IF admitted.err # Nil
        THEN IF ~rr.ar.hasRequest THEN handlerPanic({"isAdmitted"})
             ELSE withInvoked(errorResponse(admitted.err, StatusNotAcceptable, rr.ar),
                              {"isAdmitted"})
        ELSE IF admitted.isNil
        THEN IF rr.ar.hasRequest THEN handlerPanic({"isAdmitted"})
             ELSE nullResponseReview({"isAdmitted"})
        ELSE encodeReview(rr.ar, admitted.resp, {"isAdmitted"})

(***************************************************************************)
(* pkg/sting: the server certificate.  New loads the key pair, starts the  *)
(* watcher goroutine and the listeners; the watcher reloads the pair on    *)
(* create and modify events of the certificate file and stores it under    *)
(* certLock; getCert, called by every TLS handshake, reads it under        *)
(* certLock.  The files are written by the environment.  A key pair is the *)
(* versions of the certificate and of the key it was loaded from; a pair   *)
(* loads only when the key matches the certificate.                        *)
(***************************************************************************)
MaxVersions == 3

MaxEvents == 2

Handshakes == {"h1", "h2"}

NoVersion == 0

NoPair == [cert |-> NoVersion, key |-> NoVersion]

\* tls.LoadX509KeyPair(certFile, keyFile) on the files as they are now
LoadX509KeyPair(cf, kf) ==
    IF cf # NoVersion /\ cf = kf
    THEN [pair |-> [cert |-> cf, key |-> kf], err |-> Nil]
    ELSE [pair |-> NoPair, err |-> "tls: private key does not match public key"]

\* ev.IsModify() || ev.IsCreate()
isReloadEvent(ev) == ev \in {"modify", "create"}

\* mutant: a failed reload is logged and the loop goes on
afterReload_logsOnly(err) == IF err = Nil THEN "lock" ELSE "wait"

\* where the watcher goes after tls.LoadX509KeyPair: on to certLock.Lock(),
\* or into logrus.Panic, which ends the process
afterReload(err) == IF err = Nil THEN "lock" ELSE "panicked"

\* mutant: Lock does not wait for the holder
mutexFree_noExclusion(mutex) == TRUE

\* sync.Mutex: Lock returns when no goroutine holds the mutex
mutexFree(mutex) == mutex = Nil

watcherOff == [pc |-> "off", pair |-> NoPair, err |-> Nil]

handshakeIdle == [pc |-> "idle", ret |-> NoPair]

(***************************************************************************)
(* The package-level values and the copies a call works on.  A copy is the *)
(* value copied and whether writes to it reach the package-level value.    *)
(***************************************************************************)
MaxHistory == 2

\* the goroutines net/http runs the handler on
CallIds == {"a", "b"}

\* mutant: the pointer to the package-level value itself
DeepCopy_sameObject(x) == [val |-> x, shared |-> TRUE]

\* (*T).DeepCopy of k8s.io/api: a new object, nothing shared
DeepCopy(x) == [val |-> x, shared |-> FALSE]

\* mutant: the package-level slice itself
copySlice_sameBacking(vs) == [val |-> vs, shared |-> TRUE]

\* make([]corev1.Volume, 0, 5), then append(volumes, sqlProxyVolumes...)
copySlice(vs) == [val |-> vs, shared |-> FALSE]

NoContainerCopy ==
    [val |-> [image |-> "", command |-> <<>>, volumeMounts |-> <<>>, name |-> ""],
     shared |-> FALSE]

NoSliceCopy == [val |-> <<>>, shared |-> FALSE]

idleCall ==
    [ pc |-> "idle", req |-> NoRequest, order |-> <<>>,
      proxy |-> NoContainerCopy, volumes |-> NoSliceCopy,
      response |-> NoResponse, panicked |-> FALSE ]

\* the package-level values after the writes of configureContainerAndVolumes
\* of call c: a write to a shared copy is a write to the value itself
writtenBack(t, c, o) ==
    IF ~reachesPatch(o, c.req) THEN t
    ELSE
    LET obj == c.req.Object
        cfg == configureWith(t, obj, c.proxy.val, c.volumes.val, o)
        secretName == AnnotationValue(obj, annotationSecret, o.DefaultSecretName)
        caConfigName == AnnotationValue(obj, annotationCaMap, o.DefaultCertVolume)
    IN  [ container |-> IF c.proxy.shared THEN cfg.container ELSE t.container,
          volumes |-> IF c.volumes.shared THEN cfg.volumes ELSE t.volumes,
          credentialsVolume |->
              IF DeepCopy(t.credentialsVolume).shared /\ secretName # ""
              THEN [t.credentialsVolume EXCEPT !.ref = secretName]
              ELSE t.credentialsVolume,
          caCertVolume |->
              IF DeepCopy(t.caCertVolume).shared /\ caConfigName # ""
              THEN [t.caCertVolume EXCEPT !.ref = caConfigName]
              ELSE t.caCertVolume ]

\* the shared state of a model that does not look at it
SharedOff ==
    /\ templates = packageVars
    /\ call = [p \in CallIds |-> idleCall]
    /\ completed = 0

(***************************************************************************)
(* Shutdown: Main waits for a signal, Close starts Shutdown on both        *)
(* servers and waits for the context's deadline, Main exits.               *)
(***************************************************************************)
MaxInflight == 1

\* context.WithTimeout(context.Background(), 15*time.Second)
GracePeriod == 15

Signals == {"SIGTERM", "SIGINT"}

\* i.server and i.adminServer
Listeners == {"https", "admin"}

NoExit == "running"

\* mutant: the context counts as done at once
ctxDone_atOnce(t) == t >= 0

\* <-shutdownCtx.Done(): the deadline of the context has passed
ctxDone(t) == t >= GracePeriod

\* a goroutine started with the go statement that has not run yet
Runnable == {l \in Listeners : shutdown[l] = "spawned"}

\* the shutdown state of a model that does not look at it
ShutdownOff ==
    /\ mainPc = "receive"
    /\ signal = Nil
    /\ listener = [l \in Listeners |-> [accepting |-> TRUE, inflight |-> 0]]
    /\ shutdown = [l \in Listeners |-> "none"]
    /\ clock = 0
    /\ exit = NoExit

\* the certificate state of a model that does not look at it
CertOff ==
    /\ proc = "serving"
    /\ certFile = NoVersion
    /\ keyFile = NoVersion
    /\ events = <<>>
    /\ cert = NoPair
    /\ certLock = Nil
    /\ watcher = watcherOff
    /\ handshake = [h \in Handshakes |-> handshakeIdle]

(***************************************************************************)
(* The admission handler as a state machine.                               *)
(***************************************************************************)
Init ==
    /\ opts \in OptionsSet
    /\ pc = "idle"
    /\ ar = NoRequest
    /\ podSpec = NoPodSpec
    /\ rawPatch = <<>>
    /\ response = NoResponse
    /\ calls = 0
    /\ panicked = FALSE
    /\ srv = sqlbeeServer
    /\ hreq = NoHTTPRequest
    /\ hres = NoHTTPResult
    /\ CertOff
    /\ ShutdownOff
    /\ SharedOff

\* the mutate function is invoked for a request
MutateCall ==
    /\ pc = "idle"
    /\ \E req \in Requests :
       \E order \in MemberOrders(opts, req) :
          LET out == Mutate(opts, req, order)
          IN  /\ ar' = req
              /\ response' = out.response
              /\ podSpec' = out.podSpec
              /\ rawPatch' = out.rawPatch
              /\ panicked' = out.panicked
    /\ pc' = "responded"
    /\ UNCHANGED <<opts, calls, serverVars, certVars, shutdownVars, sharedVars>>

\* the request is over: its objects are dropped
RequestDone ==
    /\ pc = "responded"
    /\ pc' = "idle"
    /\ ar' = NoRequest
    /\ podSpec' = NoPodSpec
    /\ rawPatch' = <<>>
    /\ response' = NoResponse
    /\ panicked' = FALSE
    /\ UNCHANGED <<opts, calls, serverVars, certVars, shutdownVars, sharedVars>>

Next == MutateCall \/ RequestDone

Spec == Init /\ [][Next]_vars

(***************************************************************************)
(* Repeated application of the mutation to one pod spec: the inputs are    *)
(* drawn by InitPodSpec, every step is one configureContainerAndVolumes    *)
(* followed by one mutatePodSpec, on fresh copies of the templates.        *)
(***************************************************************************)
PodSpecOptions ==
    { [DefaultInstance |-> "proj:region:instance", DefaultSecretName |-> s,
       DefaultCertVolume |-> "", RequireAnnotation |-> FALSE] :
        s \in {"", "db-credentials"} }

PodSpecAnnotations ==
    AnnotationMaps((annotationCaMap :> {Nil, "root-certs"})
                   @@ (annotationImage :> {Nil, "proxy:custom"}))

InitPodSpec ==
    /\ opts \in PodSpecOptions
    /\ pc = "podspec"
    /\ \E a \in PodSpecAnnotations, spec \in InputPodSpecs :
          /\ ar = [Namespace |-> "default", Resource |-> podResource,
                   Object |-> [kind |-> "Pod", annotations |-> a, spec |-> spec,
                               keys |-> {}]]
          /\ podSpec = spec
    /\ rawPatch = <<>>
    /\ response = NoResponse
    /\ calls = 0
    /\ panicked = FALSE
    /\ srv = sqlbeeServer
    /\ hreq = NoHTTPRequest
    /\ hres = NoHTTPResult
    /\ CertOff
    /\ ShutdownOff
    /\ SharedOff

MutatePodSpecCall ==
    /\ pc = "podspec"
    /\ calls < MaxCalls
    /\ ~panicked
    /\ LET cfg == configureContainerAndVolumes(ar.Object, sqlProxyContainer,
                                               sqlProxyVolumes, opts)
           r == mutatePodSpec(cfg.volumes, cfg.container, podSpec)
       IN  /\ podSpec' = r.podSpec
           /\ panicked' = r.panicked
    /\ calls' = calls + 1
    /\ UNCHANGED <<opts, pc, ar, rawPatch, response, serverVars, certVars, shutdownVars, sharedVars>>

NextPodSpec == MutatePodSpecCall

SpecPodSpec == InitPodSpec /\ [][NextPodSpec]_vars

(***************************************************************************)
(* The server: one request at a time is followed from its arrival to the   *)
(* end of its handler; the handlers share no state.                        *)
(***************************************************************************)
ServerConfigs ==
    [mutate : {"Mutate", "returnsNil"}, needsMutate : BOOLEAN, isAdmitted : BOOLEAN]

ServerOptions ==
    { defaultOptions,
      [defaultOptions EXCEPT !.DefaultInstance = ""],
      [defaultOptions EXCEPT !.DefaultSecretName = "db-credentials"] }

ContentTypes ==
    {"application/json", "application/json; charset=utf-8", "text/plain", ""}

UIDs == {"uid-1", "uid-2"}

\* requests that take Mutate to each of its results
ServerRequests ==
    { [Namespace |-> ns, Resource |-> res, Object |-> obj] :
        ns \in {"default", "kube-system"},
        res \in {podResource, [Group |-> "", Version |-> "v1", Resource |-> "services"]},
        obj \in {Garbage} \cup
                { RawObject("Pod", a, spec, [keys |-> {}, resources |-> FALSE]) :
                    a \in {<<>>, (annotationInject :> "true")},
                    spec \in {cleanSpec,
                              injectedSpec([defaultOptions
                                              EXCEPT !.DefaultSecretName = "db-credentials"])} } }

Bodies ==
    { [form |-> f, uid |-> NoUID, request |-> NoRequest] :
        f \in {"unreadable", "empty", "syntax", "norequest"} }
    \cup { [form |-> "type", uid |-> u, request |-> NoRequest] : u \in UIDs }
    \cup { [form |-> "review", uid |-> u, request |-> req] :
             u \in UIDs, req \in ServerRequests }

InitServer ==
    /\ opts \in ServerOptions
    /\ srv \in ServerConfigs
    /\ pc = "listening"
    /\ ar = NoRequest
    /\ podSpec = NoPodSpec
    /\ rawPatch = <<>>
    /\ response = NoResponse
    /\ calls = 0
    /\ panicked = FALSE
    /\ hreq = NoHTTPRequest
    /\ hres = NoHTTPResult
    /\ CertOff
    /\ ShutdownOff
    /\ SharedOff

\* a POST to the mutate endpoint is served
ServeMutate ==
    /\ pc = "listening"
    /\ \E ct \in ContentTypes, body \in Bodies, needs \in BOOLEAN :
       \E order \in (IF body.form = "review" THEN MemberOrders(opts, body.request)
                     ELSE {<<"metadata", "spec", "status">>}) :
          LET r == [path |-> mutatePath, contentType |-> ct, body |-> body]
              h == IF allowedContentType(ct)
                   THEN handleMutate(srv, opts, r, needs, order)
                   ELSE Handled(unsupportedMediaType, NoRequest, NoOutcome)
          IN  /\ hreq' = r
              /\ hres' = h.http
              /\ ar' = h.ar
              /\ response' = h.out.response
              /\ podSpec' = h.out.podSpec
              /\ rawPatch' = h.out.rawPatch
              /\ panicked' = h.http.panicked
    /\ pc' = "served"
    /\ UNCHANGED <<opts, calls, srv, certVars, shutdownVars, sharedVars>>

\* a POST to the admit endpoint is served (the route exists when IsAdmitted is set)
ServeAdmit ==
    /\ pc = "listening"
    /\ srv.isAdmitted
    /\ \E ct \in ContentTypes, body \in Bodies, admitted \in AdmitOutcomes :
          LET r == [path |-> admitPath, contentType |-> ct, body |-> body]
              h == IF allowedContentType(ct) THEN handleAdmission(r, admitted)
                   ELSE unsupportedMediaType
          IN  /\ hreq' = r
              /\ hres' = h
              /\ panicked' = h.panicked
    /\ pc' = "served"
    /\ UNCHANGED <<opts, calls, srv, ar, response, podSpec, rawPatch, certVars, shutdownVars, sharedVars>>

\* the handler has returned
ServeDone ==
    /\ pc = "served"
    /\ pc' = "listening"
    /\ hreq' = NoHTTPRequest
    /\ hres' = NoHTTPResult
    /\ ar' = NoRequest
    /\ podSpec' = NoPodSpec
    /\ rawPatch' = <<>>
    /\ response' = NoResponse
    /\ panicked' = FALSE
    /\ UNCHANGED <<opts, calls, srv, certVars, shutdownVars, sharedVars>>

NextServer == ServeMutate \/ ServeAdmit \/ ServeDone

SpecServer == InitServer /\ [][NextServer]_vars

(***************************************************************************)
(* Concurrent calls of the mutate function: net/http serves each request   *)
(* on its own goroutine; the calls share the package-level values.         *)
(***************************************************************************)
ConcurrentOptions ==
    { defaultOptions,
      [defaultOptions EXCEPT !.DefaultSecretName = "db-credentials",
                             !.DefaultCertVolume = "root-certs"] }

ConcurrentRequests ==
    { [Namespace |-> "default", Resource |-> podResource,
       Object |-> RawObject("Pod", a, cleanSpec, [keys |-> {}, resources |-> FALSE])] :
        a \in AnnotationMaps((annotationSecret :> {Nil, "my-secret"})
                             @@ (annotationCaMap :> {Nil, "my-ca"})) }
    \cup
    { [Namespace |-> "default", Resource |-> podResource,
       Object |-> RawObject("Pod", <<>>, injectedSpec(defaultOptions),
                            [keys |-> {}, resources |-> TRUE])],
      [Namespace |-> "default", Resource |-> deploymentResource,
       Object |-> RawObject("Deployment", <<>>, cleanSpec,
                            [keys |-> {}, resources |-> FALSE])],
      [Namespace |-> "kube-system", Resource |-> podResource,
       Object |-> RawObject("Pod", <<>>, cleanSpec, [keys |-> {}, resources |-> FALSE])],
      [Namespace |-> "default", Resource |-> podResource, Object |-> Garbage] }

InitConcurrent ==
    /\ opts \in ConcurrentOptions
    /\ pc = "calls"
    /\ ar = NoRequest
    /\ podSpec = NoPodSpec
    /\ rawPatch = <<>>
    /\ response = NoResponse
    /\ calls = 0
    /\ panicked = FALSE
    /\ srv = sqlbeeServer
    /\ hreq = NoHTTPRequest
    /\ hres = NoHTTPResult
    /\ CertOff
    /\ ShutdownOff
    /\ SharedOff

\* the call is entered; past the namespace test it takes its copies
CallBegin(p) ==
    /\ call[p].pc = "idle"
    /\ completed < MaxHistory
    /\ \E req \in ConcurrentRequests :
       \E order \in MemberOrders(opts, req) :
          call' = [call EXCEPT ![p] =
                     [ pc |-> "copied", req |-> req, order |-> order,
                       proxy |-> IF inIgnoredNamespace(req) THEN NoContainerCopy
                                 ELSE DeepCopy(templates.container),
                       volumes |-> IF inIgnoredNamespace(req) THEN NoSliceCopy
                                   ELSE copySlice(templates.volumes),
                       response |-> NoResponse, panicked |-> FALSE ]]
    /\ UNCHANGED <<templates, completed>>
    /\ UNCHANGED <<handlerVars, serverVars, certVars, shutdownVars>>

\* the rest of the call: decode, gates, builder, mutation, patch, response
CallFinish(p) ==
    /\ call[p].pc = "copied"
    /\ LET c == call[p]
           out == MutateFrom(templates, c.proxy.val, c.volumes.val, opts, c.req, c.order)
       IN  /\ call' = [call EXCEPT ![p].pc = "done",
                                   ![p].response = out.response,
                                   ![p].panicked = out.panicked]
           /\ templates' = writtenBack(templates, c, opts)
    /\ UNCHANGED completed
    /\ UNCHANGED <<handlerVars, serverVars, certVars, shutdownVars>>

\* the response is written; the goroutine is free for the next request
CallReturn(p) ==
    /\ call[p].pc = "done"
    /\ call' = [call EXCEPT ![p] = idleCall]
    /\ completed' = completed + 1
    /\ UNCHANGED templates
    /\ UNCHANGED <<handlerVars, serverVars, certVars, shutdownVars>>

CallBeginA == CallBegin("a")
CallBeginB == CallBegin("b")
CallFinishA == CallFinish("a")
CallFinishB == CallFinish("b")
CallReturnA == CallReturn("a")
CallReturnB == CallReturn("b")

NextConcurrent ==
    \/ CallBeginA
    \/ CallBeginB
    \/ CallFinishA
    \/ CallFinishB
    \/ CallReturnA
    \/ CallReturnB

SpecConcurrent == InitConcurrent /\ [][NextConcurrent]_vars

(***************************************************************************)
(* Shutdown as a state machine, from the point where New has returned and  *)
(* Main blocks on gracefulStop.  Time is counted in seconds from the       *)
(* creation of shutdownCtx; a goroutine that is runnable runs before a     *)
(* second passes.                                                          *)
(***************************************************************************)
InitShutdown ==
    /\ opts = defaultOptions
    /\ pc = "main"
    /\ ar = NoRequest
    /\ podSpec = NoPodSpec
    /\ rawPatch = <<>>
    /\ response = NoResponse
    /\ calls = 0
    /\ panicked = FALSE
    /\ srv = sqlbeeServer
    /\ hreq = NoHTTPRequest
    /\ hres = NoHTTPResult
    /\ CertOff
    /\ ShutdownOff
    /\ SharedOff

\* a client's request is accepted by a listener
AcceptRequest(l) ==
    /\ exit = NoExit
    /\ listener[l].accepting
    /\ listener[l].inflight < MaxInflight
    /\ listener' = [listener EXCEPT ![l].inflight = @ + 1]
    /\ UNCHANGED <<mainPc, signal, shutdown, clock, exit>>
    /\ UNCHANGED <<handlerVars, serverVars, certVars, sharedVars>>

\* a request in flight is answered
FinishRequest(l) ==
    /\ exit = NoExit
    /\ listener[l].inflight > 0
    /\ listener' = [listener EXCEPT ![l].inflight = @ - 1]
    /\ UNCHANGED <<mainPc, signal, shutdown, clock, exit>>
    /\ UNCHANGED <<handlerVars, serverVars, certVars, sharedVars>>

\* <-gracefulStop: SIGTERM or SIGINT is delivered to the waiting Main
ReceiveSignal(sig) ==
    /\ mainPc = "receive"
    /\ signal' = sig
    /\ mainPc' = "ctx"
    /\ UNCHANGED <<listener, shutdown, clock, exit>>
    /\ UNCHANGED <<handlerVars, serverVars, certVars, sharedVars>>

\* a signal while nobody receives from the unbuffered channel is dropped
DropSignal(sig) ==
    /\ exit = NoExit
    /\ mainPc # "receive"
    /\ UNCHANGED shutdownVars
    /\ UNCHANGED <<handlerVars, serverVars, certVars, sharedVars>>

\* Close: context.WithTimeout
CloseContext ==
    /\ mainPc = "ctx"
    /\ clock' = 0
    /\ mainPc' = "goServer"
    /\ UNCHANGED <<signal, listener, shutdown, exit>>
    /\ UNCHANGED <<handlerVars, serverVars, certVars, sharedVars>>

\* Close: go i.server.Shutdown(shutdownCtx)
GoServerShutdown ==
    /\ mainPc = "goServer"
    /\ shutdown' = [shutdown EXCEPT !["https"] = "spawned"]
    /\ mainPc' = "goAdmin"
    /\ UNCHANGED <<signal, listener, clock, exit>>
    /\ UNCHANGED <<handlerVars, serverVars, certVars, sharedVars>>

\* Close: go i.adminServer.Shutdown(shutdownCtx)
GoAdminShutdown ==
    /\ mainPc = "goAdmin"
    /\ shutdown' = [shutdown EXCEPT !["admin"] = "spawned"]
    /\ mainPc' = "wait"
    /\ UNCHANGED <<signal, listener, clock, exit>>
    /\ UNCHANGED <<handlerVars, serverVars, certVars, sharedVars>>

\* http.Server.Shutdown begins: the listener is closed, no request is accepted
ShutdownBegin(l) ==
    /\ exit = NoExit
    /\ shutdown[l] = "spawned"
    /\ shutdown' = [shutdown EXCEPT ![l] = "draining"]
    /\ listener' = [listener EXCEPT ![l].accepting = FALSE]
    /\ UNCHANGED <<mainPc, signal, clock, exit>>
    /\ UNCHANGED <<handlerVars, serverVars, certVars, sharedVars>>

\* http.Server.Shutdown returns: no request in flight, or the context is done
ShutdownReturn(l) ==
    /\ exit = NoExit
    /\ shutdown[l] = "draining"
    /\ \/ /\ listener[l].inflight = 0
          /\ shutdown' = [shutdown EXCEPT ![l] = "done"]
       \/ /\ listener[l].inflight > 0
          /\ ctxDone(clock)
          /\ shutdown' = [shutdown EXCEPT ![l] = "expired"]
    /\ UNCHANGED <<mainPc, signal, listener, clock, exit>>
    /\ UNCHANGED <<handlerVars, serverVars, certVars, sharedVars>>

\* a second passes
Tick ==
    /\ exit = NoExit
    /\ mainPc = "wait"
    /\ Runnable = {}
    /\ clock < GracePeriod
    /\ clock' = clock + 1
    /\ UNCHANGED <<mainPc, signal, listener, shutdown, exit>>
    /\ UNCHANGED <<handlerVars, serverVars, certVars, sharedVars>>

\* Close: <-shutdownCtx.Done(); return nil
CloseReturn ==
    /\ mainPc = "wait"
    /\ ctxDone(clock)
    /\ mainPc' = "returned"
    /\ UNCHANGED <<signal, listener, shutdown, clock, exit>>
    /\ UNCHANGED <<handlerVars, serverVars, certVars, sharedVars>>

\* Main: os.Exit(0)
Exit ==
    /\ mainPc = "returned"
    /\ mainPc' = "exited"
    /\ exit' = "0"
    /\ UNCHANGED <<signal, listener, shutdown, clock>>
    /\ UNCHANGED <<handlerVars, serverVars, certVars, sharedVars>>

AcceptHTTPS == AcceptRequest("https")
AcceptAdmin == AcceptRequest("admin")
FinishHTTPS == FinishRequest("https")
FinishAdmin == FinishRequest("admin")
ReceiveSIGTERM == ReceiveSignal("SIGTERM")
ReceiveSIGINT == ReceiveSignal("SIGINT")
DropSIGTERM == DropSignal("SIGTERM")
ShutdownBeginHTTPS == ShutdownBegin("https")
ShutdownBeginAdmin == ShutdownBegin("admin")
ShutdownReturnHTTPS == ShutdownReturn("https")
ShutdownReturnAdmin == ShutdownReturn("admin")

NextShutdown ==
    \/ AcceptHTTPS
    \/ AcceptAdmin
    \/ FinishHTTPS
    \/ FinishAdmin
    \/ ReceiveSIGTERM
    \/ ReceiveSIGINT
    \/ DropSIGTERM
    \/ CloseContext
    \/ GoServerShutdown
    \/ GoAdminShutdown
    \/ ShutdownBeginHTTPS
    \/ ShutdownBeginAdmin
    \/ ShutdownReturnHTTPS
    \/ ShutdownReturnAdmin
    \/ Tick
    \/ CloseReturn
    \/ Exit

SpecShutdown == InitShutdown /\ [][NextShutdown]_vars

\* the Go scheduler runs every runnable goroutine, and time passes
FairSpecShutdown ==
    /\ SpecShutdown
    /\ WF_vars(CloseContext)
    /\ WF_vars(GoServerShutdown)
    /\ WF_vars(GoAdminShutdown)
    /\ WF_vars(ShutdownBeginHTTPS)
    /\ WF_vars(ShutdownBeginAdmin)
    /\ WF_vars(Tick)
    /\ WF_vars(CloseReturn)
    /\ WF_vars(Exit)

(***************************************************************************)
(* The certificate life cycle: New, the file watcher, the handshakes and   *)
(* the environment that rotates the files.                                 *)
(***************************************************************************)
InitCert ==
    /\ opts = defaultOptions
    /\ pc = "tls"
    /\ ar = NoRequest
    /\ podSpec = NoPodSpec
    /\ rawPatch = <<>>
    /\ response = NoResponse
    /\ calls = 0
    /\ panicked = FALSE
    /\ srv = sqlbeeServer
    /\ hreq = NoHTTPRequest
    /\ hres = NoHTTPResult
    /\ proc = "new"
    /\ certFile = 1
    /\ keyFile \in {NoVersion, 1}
    /\ events = <<>>
    /\ cert = NoPair
    /\ certLock = Nil
    /\ watcher = watcherOff
    /\ handshake = [h \in Handshakes |-> handshakeIdle]
    /\ ShutdownOff
    /\ SharedOff

\* New: the initial load, the file watcher, then the goroutines
NewServer ==
    /\ proc = "new"
    /\ LET r == LoadX509KeyPair(certFile, keyFile)
       IN  IF r.err # Nil
           THEN /\ proc' = "failed"
                /\ UNCHANGED <<cert, watcher>>
           ELSE \E watching \in BOOLEAN :
                   /\ cert' = r.pair
                   /\ proc' = IF watching THEN "serving" ELSE "failed"
                   /\ watcher' = IF watching THEN [watcherOff EXCEPT !.pc = "wait"]
                                 ELSE watcherOff
    /\ UNCHANGED <<certFile, keyFile, events, certLock, handshake>>
    /\ UNCHANGED <<handlerVars, serverVars, shutdownVars, sharedVars>>

\* the environment writes a new certificate; the watcher is notified
WriteCertFile ==
    /\ proc = "serving"
    /\ certFile < MaxVersions
    /\ Len(events) < MaxEvents
    /\ certFile' = certFile + 1
    /\ \E ev \in {"modify", "create"} : events' = Append(events, ev)
    /\ UNCHANGED <<proc, keyFile, cert, certLock, watcher, handshake>>
    /\ UNCHANGED <<handlerVars, serverVars, shutdownVars, sharedVars>>

\* the environment writes a new key; the key file is not watched
WriteKeyFile ==
    /\ proc = "serving"
    /\ keyFile < MaxVersions
    /\ keyFile' = keyFile + 1
    /\ UNCHANGED <<proc, certFile, events, cert, certLock, watcher, handshake>>
    /\ UNCHANGED <<handlerVars, serverVars, shutdownVars, sharedVars>>

\* the environment changes the mode of the certificate file
ChmodCertFile ==
    /\ proc = "serving"
    /\ Len(events) < MaxEvents
    /\ events' = Append(events, "attrib")
    /\ UNCHANGED <<proc, certFile, keyFile, cert, certLock, watcher, handshake>>
    /\ UNCHANGED <<handlerVars, serverVars, shutdownVars, sharedVars>>

\* case ev := <-watcher.Event
WatcherReceive ==
    /\ proc = "serving"
    /\ watcher.pc = "wait"
    /\ events # <<>>
    /\ events' = Tail(events)
    /\ watcher' = [watcher EXCEPT !.pc = IF isReloadEvent(Head(events)) THEN "reload"
                                         ELSE "wait"]
    /\ UNCHANGED <<proc, certFile, keyFile, cert, certLock, handshake>>
    /\ UNCHANGED <<handlerVars, serverVars, shutdownVars, sharedVars>>

\* pair, err := tls.LoadX509KeyPair(...); if err != nil, logrus.Panic
WatcherReload ==
    /\ proc = "serving"
    /\ watcher.pc = "reload"
    /\ LET r == LoadX509KeyPair(certFile, keyFile)
           next == afterReload(r.err)
       IN  /\ watcher' = [pc |-> next, pair |-> r.pair, err |-> r.err]
           /\ proc' = IF next = "panicked" THEN "dead" ELSE proc
    /\ UNCHANGED <<certFile, keyFile, events, cert, certLock, handshake>>
    /\ UNCHANGED <<handlerVars, serverVars, shutdownVars, sharedVars>>

\* i.certLock.Lock()
WatcherLock ==
    /\ proc = "serving"
    /\ watcher.pc = "lock"
    /\ mutexFree(certLock)
    /\ certLock' = "watcher"
    /\ watcher' = [watcher EXCEPT !.pc = "store"]
    /\ UNCHANGED <<proc, certFile, keyFile, events, cert, handshake>>
    /\ UNCHANGED <<handlerVars, serverVars, shutdownVars, sharedVars>>

\* i.cert = &pair
WatcherStore ==
    /\ proc = "serving"
    /\ watcher.pc = "store"
    /\ cert' = watcher.pair
    /\ watcher' = [watcher EXCEPT !.pc = "unlock"]
    /\ UNCHANGED <<proc, certFile, keyFile, events, certLock, handshake>>
    /\ UNCHANGED <<handlerVars, serverVars, shutdownVars, sharedVars>>

\* i.certLock.Unlock()
WatcherUnlock ==
    /\ proc = "serving"
    /\ watcher.pc = "unlock"
    /\ certLock' = Nil
    /\ watcher' = [watcher EXCEPT !.pc = "wait"]
    /\ UNCHANGED <<proc, certFile, keyFile, events, cert, handshake>>
    /\ UNCHANGED <<handlerVars, serverVars, shutdownVars, sharedVars>>

\* getCert: i.certLock.Lock()
GetCertLock(h) ==
    /\ proc = "serving"
    /\ handshake[h].pc = "idle"
    /\ mutexFree(certLock)
    /\ certLock' = h
    /\ handshake' = [handshake EXCEPT ![h].pc = "read"]
    /\ UNCHANGED <<proc, certFile, keyFile, events, cert, watcher>>
    /\ UNCHANGED <<handlerVars, serverVars, shutdownVars, sharedVars>>

\* getCert: the operand of return i.cert, nil
GetCertRead(h) ==
    /\ proc = "serving"
    /\ handshake[h].pc = "read"
    /\ handshake' = [handshake EXCEPT ![h] = [pc |-> "unlock", ret |-> cert]]
    /\ UNCHANGED <<proc, certFile, keyFile, events, cert, certLock, watcher>>
    /\ UNCHANGED <<handlerVars, serverVars, shutdownVars, sharedVars>>

\* getCert: the deferred i.certLock.Unlock(), then the return
GetCertUnlock(h) ==
    /\ proc = "serving"
    /\ handshake[h].pc = "unlock"
    /\ certLock' = Nil
    /\ handshake' = [handshake EXCEPT ![h].pc = "idle"]
    /\ UNCHANGED <<proc, certFile, keyFile, events, cert, watcher>>
    /\ UNCHANGED <<handlerVars, serverVars, shutdownVars, sharedVars>>

NextCert ==
    \/ NewServer
    \/ WriteCertFile
    \/ WriteKeyFile
    \/ ChmodCertFile
    \/ WatcherReceive
    \/ WatcherReload
    \/ WatcherLock
    \/ WatcherStore
    \/ WatcherUnlock
    \/ \E h \in Handshakes : GetCertLock(h)
    \/ \E h \in Handshakes : GetCertRead(h)
    \/ \E h \in Handshakes : GetCertUnlock(h)

SpecCert == InitCert /\ [][NextCert]_vars

(***************************************************************************)
(* Properties of the pod spec mutator.                                     *)
(***************************************************************************)
currentProxy ==
    configureContainerAndVolumes(ar.Object, sqlProxyContainer, sqlProxyVolumes, opts)

SidecarCount(spec) ==
    Cardinality({i \in DOMAIN spec.containers :
                    matchesProxy(spec.containers[i], currentProxy.container)})

VolumeCount(spec, n) == Cardinality({i \in DOMAIN spec.volumes : spec.volumes[i].name = n})

ReservedVolumeNames == {"cloudsql", "sql-service-token-account", "sql-ca-certificates"}

OwnedVolumeNames == {v.name : v \in Range(currentProxy.volumes)}

CleanPodSpec(spec) ==
    /\ SidecarCount(spec) = 0
    /\ \A n \in ReservedVolumeNames : VolumeCount(spec, n) = 0

\* C1: a pod spec produced by a mutation (of a spec without sidecar and
\* without reserved volumes) is mutated again, any number of times: the call
\* completes, and the result holds exactly one sidecar container and exactly
\* one volume of each reserved name the sidecar owns (and no other reserved one).
C1_Idempotence ==
    (pc = "podspec" /\ CleanPodSpec(ar.Object.spec) /\ calls >= 2) =>
        /\ ~panicked
        /\ SidecarCount(podSpec) = 1
        /\ \A n \in ReservedVolumeNames :
              VolumeCount(podSpec, n) = IF n \in OwnedVolumeNames THEN 1 ELSE 0

\* C2: whatever the input pod spec holds, the result of mutatePodSpec has
\* exactly one container that matches the sidecar by name or by image.
C2_OneSidecar ==
    (pc = "podspec" /\ calls >= 1) => SidecarCount(podSpec) = 1

\* C3: whatever reserved-name volumes the input holds, mutatePodSpec
\* completes and each reserved volume name appears at most once in the result.
C3_ReservedVolumesOnce ==
    (pc = "podspec" /\ calls >= 1) =>
        /\ ~panicked
        /\ \A n \in ReservedVolumeNames : VolumeCount(podSpec, n) <= 1

(***************************************************************************)
(* Properties of the admission handler.                                    *)
(***************************************************************************)
Answered == pc = "responded"

ExcludedNamespaces == {"kube-system", "kube-public"}

\* the request names a supported kind and its payload decodes
Decoded ==
    /\ ar.Resource = podResource \/ ar.Resource.Resource = "deployments"
    /\ ar.Object.kind \in {"Pod", "Deployment"}

Annotated(key) == key \in DOMAIN ar.Object.annotations

\* the value the annotation or, in its absence, the default gives
Resolved(key, def) == IF Annotated(key) THEN ar.Object.annotations[key] ELSE def

InjectIs(val) == Annotated(annotationInject) /\ ar.Object.annotations[annotationInject] = val

GatePasses == IF opts.RequireAnnotation THEN InjectIs("true") ELSE ~InjectIs("false")

NoPatch == response.Patch.isNil /\ response.PatchType = Nil

AllowedNoPatch == response.Allowed /\ NoPatch /\ response.Result = Nil

Untouched == podSpec = DecodeSpec(ar.Object.spec)

SidecarLast ==
    /\ podSpec.containers # <<>>
    /\ podSpec.containers[Len(podSpec.containers)].name = "cloud-sql-proxy"

\* C4: with RequireAnnotation, a supported resource outside the excluded
\* namespaces whose inject annotation is absent or is not exactly "true" is
\* allowed without patch and patch type, and its pod spec is not mutated.
C4_GateRequireAnnotation ==
    (/\ Answered /\ opts.RequireAnnotation
     /\ ar.Namespace \notin ExcludedNamespaces /\ Decoded
     /\ ~InjectIs("true"))
    => (~panicked /\ AllowedNoPatch /\ Untouched)

C4_Witness ==
    /\ Answered /\ opts.RequireAnnotation /\ opts.DefaultInstance # ""
    /\ ar.Namespace = "default" /\ Decoded
    /\ InjectIs("yes")
    /\ AllowedNoPatch /\ Untouched

\* C5: without RequireAnnotation, a supported resource whose inject
\* annotation is exactly "false" is allowed without patch; every other one
\* goes on to instance validation (rejected when no instance resolves) and
\* to the mutation (the sidecar is appended to its pod spec).
C5_GateOptOut ==
    (/\ Answered /\ ~opts.RequireAnnotation
     /\ ar.Namespace \notin ExcludedNamespaces /\ Decoded)
    => IF InjectIs("false") THEN ~panicked /\ AllowedNoPatch /\ Untouched
       ELSE IF Resolved(annotationInstance, opts.DefaultInstance) = ""
       THEN ~panicked /\ ~response.Allowed /\ response.Result = InstanceError /\ NoPatch
       ELSE SidecarLast /\ (~panicked => response.Allowed /\ response.Result = Nil)

C5_Witness ==
    /\ Answered /\ ~opts.RequireAnnotation
    /\ ar.Namespace = "default" /\ Decoded
    /\ ~Annotated(annotationInject)
    /\ ~panicked /\ response.Allowed /\ ~response.Patch.isNil /\ SidecarLast

\* C6 as stated: every request for a resource without instance annotation,
\* under an empty default instance, is rejected with a message and gets no patch.
C6_AlwaysRejected ==
    (/\ Answered /\ ar.Object.kind \in {"Pod", "Deployment"}
     /\ ~Annotated(annotationInstance) /\ opts.DefaultInstance = "")
    => (~response.Allowed /\ response.Result # Nil /\ NoPatch)

\* C6 amended: such a resource never gets a patch; it is rejected with the
\* instance message when the request reaches the instance validation
\* (namespace not excluded, supported kind, annotation gate passed), and
\* allowed without patch when its namespace is excluded or the gate skips it.
C6_InstanceValidation ==
    (/\ Answered /\ ar.Object.kind \in {"Pod", "Deployment"}
     /\ ~Annotated(annotationInstance) /\ opts.DefaultInstance = "")
    => /\ ~panicked /\ NoPatch
       /\ (ar.Namespace \notin ExcludedNamespaces /\ Decoded /\ GatePasses)
             => (~response.Allowed /\ response.Result = InstanceError)
       /\ (ar.Namespace \in ExcludedNamespaces \/ (Decoded /\ ~GatePasses))
             => AllowedNoPatch

C6_Witness ==
    /\ Answered /\ Decoded /\ ar.Namespace = "default"
    /\ ~Annotated(annotationInstance) /\ opts.DefaultInstance = ""
    /\ InjectIs("true")
    /\ ~response.Allowed /\ response.Result = InstanceError /\ NoPatch

\* C7: a request in kube-system or kube-public is allowed without patch and
\* patch type, whatever its resource, payload, annotations and the options.
C7_NamespaceExclusion ==
    (Answered /\ ar.Namespace \in ExcludedNamespaces)
    => (~panicked /\ AllowedNoPatch /\ podSpec = NoPodSpec)

C7_Witness ==
    /\ Answered /\ ar.Namespace = "kube-system" /\ Decoded
    /\ opts.DefaultInstance # "" /\ opts.RequireAnnotation /\ InjectIs("true")
    /\ AllowedNoPatch

\* the sidecar container of a mutated pod spec
Sidecar == podSpec.containers[Len(podSpec.containers)]

Mutated ==
    /\ Answered /\ ~panicked /\ Decoded
    /\ ar.Namespace \notin ExcludedNamespaces /\ GatePasses
    /\ response.Allowed

HasVolume(name, kind, ref) ==
    \E i \in DOMAIN podSpec.volumes :
        podSpec.volumes[i] = [name |-> name, kind |-> kind, ref |-> ref]

Mounts(name) == \E i \in DOMAIN Sidecar.volumeMounts : Sidecar.volumeMounts[i].name = name

\* C8: the sidecar is built from the annotation value whenever the key is
\* present (the empty string included) and from the default exactly when it
\* is absent: image, instance flag, credential secret and CA config map.
C8_AnnotationPrecedence ==
    /\ (Answered /\ ~panicked /\ Decoded /\ ar.Namespace \notin ExcludedNamespaces
        /\ GatePasses /\ Resolved(annotationInstance, opts.DefaultInstance) = "")
         => (~response.Allowed /\ NoPatch)
    /\ Mutated =>
         LET secret == Resolved(annotationSecret, opts.DefaultSecretName)
             caMap == Resolved(annotationCaMap, opts.DefaultCertVolume)
             instance == Resolved(annotationInstance, opts.DefaultInstance)
         IN  /\ SidecarLast
             /\ Sidecar.image = Resolved(annotationImage, defaultImage)
             /\ instance # ""
             /\ Sidecar.command[Len(Sidecar.command)]
                  = "-instances=" \o instance \o "=tcp:127.0.0.1:3306"
             /\ IF secret # ""
                THEN HasVolume("sql-service-token-account", "secret", secret)
                     /\ Mounts("sql-service-token-account")
                ELSE ~Mounts("sql-service-token-account")
                     /\ VolumeCount(podSpec, "sql-service-token-account") = 0
             /\ IF caMap # ""
                THEN HasVolume("sql-ca-certificates", "configMap", caMap)
                ELSE VolumeCount(podSpec, "sql-ca-certificates") = 0

C8_Witness ==
    /\ Mutated
    /\ Annotated(annotationSecret) /\ ar.Object.annotations[annotationSecret] = ""
    /\ opts.DefaultSecretName # ""
    /\ Annotated(annotationCaMap) /\ ar.Object.annotations[annotationCaMap] = "my-ca"
    /\ opts.DefaultCertVolume # ""
    /\ ~Annotated(annotationImage)
    /\ Annotated(annotationInstance) /\ opts.DefaultInstance # ""
    /\ VolumeCount(podSpec, "sql-service-token-account") = 0
    /\ HasVolume("sql-ca-certificates", "configMap", "my-ca")

DenylistedPaths ==
    {"/status", "/metadata/creationTimestamp", "/spec/template/metadata/creationTimestamp"}

Denylisted(patch) == {i \in DOMAIN patch : patch[i].path \in DenylistedPaths}

\* C9: a non-empty patch returned by CreatePatch holds no operation on a
\* denylisted path, whatever operations the diff produced.
C9_NoDenylistedPath ==
    (Answered /\ ~panicked /\ BytesLen(response.Patch) > 0)
    => Denylisted(response.Patch.jsonPatch) = {}

\* several denylisted operations, two of them adjacent, were filtered out of
\* a patch that keeps other operations
C9_Witness ==
    /\ Answered /\ ~panicked
    /\ response.Patch.jsonPatch # <<>>
    /\ Cardinality(Denylisted(rawPatch)) = 3
    /\ \E i \in Denylisted(rawPatch) : i + 1 \in Denylisted(rawPatch)
    /\ Denylisted(response.Patch.jsonPatch) = {}

\* C10: when no operation remains after the denylist filtering, CreatePatch
\* returns no bytes and the response is allowed with neither Patch nor
\* PatchType.
C10_EmptyPatchNotSet ==
    (/\ Answered /\ ~panicked /\ Decoded /\ response.Allowed
     /\ Denylisted(rawPatch) = DOMAIN rawPatch)
    => (response.Patch.isNil /\ response.PatchType = Nil)

(***************************************************************************)
(* End-to-end properties of the patch.                                     *)
(***************************************************************************)
\* the operations of the patch in the response
PatchOps == response.Patch.jsonPatch

\* the root of the pod spec in the document of the request
SpecRoot == IF ar.Object.kind = "Deployment" THEN "/spec/template/spec" ELSE "/spec"

ContainerItemPaths(root) ==
    {ItemPath(root \o "/containers", i) : i \in 1..(MaxContainers + 2)}

VolumeItemPaths(root) ==
    {ItemPath(root \o "/volumes", i) : i \in 1..(MaxVolumes + 3)}

\* every path an operation on the pod spec under root can have
SpecPaths(root) ==
    LET inItems(ps, subs) == {p \o s : p \in ps, s \in subs}
        args(ps) == UNION {{ItemPath(p \o "/command", i) : i \in 1..4} : p \in ps}
        mounts(ps) ==
            UNION {{ItemPath(p \o "/volumeMounts", i) : i \in 1..3} : p \in ps}
    IN  {root \o "/containers", root \o "/volumes"}
        \cup ContainerItemPaths(root)
        \cup inItems(ContainerItemPaths(root),
                     {"/command", "/image", "/name", "/resources", "/volumeMounts"})
        \cup args(ContainerItemPaths(root))
        \cup mounts(ContainerItemPaths(root))
        \cup inItems(mounts(ContainerItemPaths(root)), {"/mountPath", "/name"})
        \cup VolumeItemPaths(root)
        \cup inItems(VolumeItemPaths(root),
                     {"/name", "/pvc", "/emptyDir", "/secret", "/configMap"})

OnPath(ps) == {i \in DOMAIN PatchOps : PatchOps[i].path \in ps}

\* the operations that add a container named as the sidecar
SidecarAdds ==
    {i \in OnPath(ContainerItemPaths(SpecRoot)) :
        PatchOps[i].op = "add" /\ PatchOps[i].value.name = "cloud-sql-proxy"}

ScratchVolume == [name |-> "cloudsql", kind |-> "emptyDir", ref |-> ""]

\* the pod spec of the request holds neither a sidecar nor a reserved volume
Fresh == CleanPodSpec(DecodeSpec(ar.Object.spec))

\* the request of the first end-to-end scenario: a bare pod to inject, no
\* credential secret and no CA map by annotation or default, the instance
\* taken from the process default
BarePodInjection ==
    /\ Answered /\ ar.Namespace \notin ExcludedNamespaces
    /\ ar.Resource = podResource /\ ar.Object.kind = "Pod" /\ Fresh
    /\ InjectIs("true")
    /\ ~Annotated(annotationSecret) /\ ~Annotated(annotationCaMap)
    /\ ~Annotated(annotationInstance)
    /\ opts.DefaultSecretName = "" /\ opts.DefaultCertVolume = ""
    /\ opts.DefaultInstance # ""

\* allowed, exactly one volume added (the scratch volume), exactly one
\* sidecar container added, its last argument the instance flag
InjectionPatch ==
    /\ ~panicked /\ response.Allowed /\ response.PatchType = PatchTypeJSONPatch
    /\ OnPath({SpecRoot \o "/volumes"}) = {}
    /\ Cardinality(OnPath(VolumeItemPaths(SpecRoot))) = 1
    /\ \A i \in OnPath(VolumeItemPaths(SpecRoot)) :
          PatchOps[i].op = "add" /\ PatchOps[i].value = ScratchVolume
    /\ Cardinality(SidecarAdds) = 1
    /\ \A i \in SidecarAdds :
          LET cmd == PatchOps[i].value.command
          IN  cmd[Len(cmd)] = "-instances=" \o opts.DefaultInstance \o "=tcp:127.0.0.1:3306"

\* the operations on whole containers other than the addition of the sidecar
OtherContainerOps == OnPath(ContainerItemPaths(SpecRoot)) \ SidecarAdds

CanonicalContainers ==
    \A i \in DOMAIN ar.Object.spec.containers : ar.Object.spec.containers[i].resourcesKey

ReInjection ==
    /\ Answered /\ ar.Namespace \notin ExcludedNamespaces
    /\ ar.Resource = podResource /\ ar.Object.kind = "Pod"
    /\ GatePasses
    /\ opts.DefaultCertVolume = ""
    /\ ~Annotated(annotationSecret) /\ ~Annotated(annotationCaMap)
    /\ DecodeSpec(ar.Object.spec) =
          injectedSpec([defaultOptions EXCEPT !.DefaultSecretName = opts.DefaultSecretName])
    /\ Annotated(annotationInstance)
    /\ ar.Object.annotations[annotationInstance] = "other:region:db"

\* additions of the empty "resources" member the encoder writes
ResourcesAdds ==
    {i \in DOMAIN PatchOps :
        /\ PatchOps[i].path \in {p \o "/resources" : p \in ContainerItemPaths(SpecRoot)}
        /\ PatchOps[i].op = "add"}

\* the only effective operation replaces the last argument of the last container
OnlyInstanceReplaced ==
    LET n == Len(podSpec.containers)
        last == ItemPath(ItemPath(SpecRoot \o "/containers", n) \o "/command",
                         Len(podSpec.containers[n].command))
    IN  /\ Cardinality(DOMAIN PatchOps \ ResourcesAdds) = 1
        /\ \A i \in DOMAIN PatchOps \ ResourcesAdds :
              /\ PatchOps[i].op = "replace" /\ PatchOps[i].path = last
              /\ PatchOps[i].value = "-instances=other:region:db=tcp:127.0.0.1:3306"

\* C12: re-submitting an injected pod with only the instance annotation
\* changed is answered with a patch whose only effect is the replacement of
\* the sidecar's instance argument; the patch holds no operation on volumes.
C12_ReInjectionReplacesInstance ==
    ReInjection =>
        /\ ~panicked /\ response.Allowed /\ response.PatchType = PatchTypeJSONPatch
        /\ OnlyInstanceReplaced
        /\ OnPath(VolumeItemPaths(SpecRoot) \cup {SpecRoot \o "/volumes"}) = {}
        /\ podSpec.volumes = DecodeSpec(ar.Object.spec).volumes

\* the same, for the pods whose sidecar owns the scratch volume only
C12_ScratchOnly ==
    (ReInjection /\ opts.DefaultSecretName = "") =>
        /\ ~panicked /\ response.Allowed /\ response.PatchType = PatchTypeJSONPatch
        /\ OnlyInstanceReplaced
        /\ OnPath(VolumeItemPaths(SpecRoot) \cup {SpecRoot \o "/volumes"}) = {}
        /\ podSpec.volumes = DecodeSpec(ar.Object.spec).volumes

C12_ScratchOnlyReached ==
    /\ ReInjection /\ opts.DefaultSecretName = "" /\ OnlyInstanceReplaced

\* C13 as stated: every resource of a supported kind with the inject
\* annotation "true", under a configured default instance, is allowed with
\* patch type JSONPatch and a non-empty patch.
C13_AlwaysPatched ==
    (Answered /\ Decoded /\ InjectIs("true") /\ opts.DefaultInstance # "")
    => /\ ~panicked /\ response.Allowed
       /\ response.PatchType = PatchTypeJSONPatch /\ PatchOps # <<>>

\* the request of the same resource as a bare pod
AsPodRequest ==
    [ar EXCEPT !.Resource = podResource, !.Object.kind = "Pod",
               !.Object.keys = ar.Object.keys \cap EncoderKeys("Pod")]

\* C13 amended: a resource of a supported kind outside the excluded
\* namespaces that carries no sidecar and no reserved volume yet, with the
\* inject annotation "true" and an instance that resolves to a non-empty
\* name, is allowed with patch type JSONPatch and a non-empty patch; for a
\* Deployment every operation is on spec.template.spec (or adds the empty
\* spec.strategy) and the mutated pod spec is the one a bare Pod with the
\* same annotations, pod spec and options gets at spec.
C13_FreshResourcePatched ==
    (/\ Answered /\ Decoded /\ ar.Namespace \notin ExcludedNamespaces /\ Fresh
     /\ InjectIs("true") /\ Resolved(annotationInstance, opts.DefaultInstance) # "")
    => /\ ~panicked /\ response.Allowed
       /\ response.PatchType = PatchTypeJSONPatch /\ PatchOps # <<>>
       /\ Cardinality(SidecarAdds) = 1
       /\ \A i \in DOMAIN PatchOps :
             PatchOps[i].path \in SpecPaths(SpecRoot) \cup
                (IF ar.Object.kind = "Deployment" THEN {"/spec/strategy"} ELSE {})
       /\ podSpec = Mutate(opts, AsPodRequest, <<"metadata", "spec", "status">>).podSpec
       /\ Sidecar = currentProxy.container
       /\ podSpec.volumes = DecodeSpec(ar.Object.spec).volumes \o currentProxy.volumes

C13_Witness ==
    /\ Answered /\ Decoded /\ ar.Namespace = "default" /\ Fresh
    /\ ar.Resource = legacyDeploymentResource /\ ar.Object.kind = "Deployment"
    /\ InjectIs("true") /\ opts.DefaultInstance # "" /\ opts.RequireAnnotation
    /\ response.Allowed /\ response.PatchType = PatchTypeJSONPatch
    /\ \E i \in SidecarAdds : PatchOps[i].path = "/spec/template/spec/containers/1"

\* C14: outside the excluded namespaces a request is handled as a Pod only
\* when its resource is ("", v1, pods), as a Deployment whenever its resource
\* name is "deployments", and any other resource is rejected with "Wrong
\* resource type", without patch and without decoding its payload.
C14_ResourceDispatch ==
    (Answered /\ ar.Namespace \notin ExcludedNamespaces) =>
        IF ar.Resource = podResource \/ ar.Resource.Resource = "deployments"
        THEN /\ response.Result # WrongResourceError
             /\ ar.Object.kind = Garbage.kind =>
                   (~response.Allowed /\ response.Result = DecodeError /\ NoPatch)
             /\ ar.Object.kind # Garbage.kind =>
                   /\ podSpec # NoPodSpec
                   /\ \A i \in DOMAIN PatchOps :
                         PatchOps[i].path \in
                            IF ar.Resource = podResource THEN SpecPaths("/spec")
                            ELSE SpecPaths("/spec/template/spec") \cup {"/spec/strategy"}
        ELSE /\ ~panicked /\ ~response.Allowed
             /\ response.Result = WrongResourceError
             /\ NoPatch /\ podSpec = NoPodSpec

\* a pods resource of another group is not taken for a Pod
C14_Witness ==
    /\ Answered /\ ar.Namespace = "default"
    /\ ar.Resource = [Group |-> "apps", Version |-> "v1", Resource |-> "pods"]
    /\ ar.Object.kind = "Pod" /\ InjectIs("true") /\ opts.DefaultInstance # ""
    /\ ~response.Allowed /\ response.Result = WrongResourceError /\ NoPatch

(***************************************************************************)
(* Properties of the admission endpoints.                                  *)
(***************************************************************************)
Served == pc = "served"

JSONContent == hreq.contentType = "application/json"

\* C15: a request to an admission endpoint whose Content-Type is not exactly
\* application/json is answered with status 415; its body is not read and
\* none of the mutate, needs-mutation and admit functions is invoked.
C15_ContentTypeEnforced ==
    (Served /\ ~JSONContent) =>
        /\ hres.status = 415
        /\ ~hres.bodyRead /\ hres.invoked = {}
        /\ ~hres.review.written /\ ar = NoRequest /\ response = NoResponse

C15_Witness ==
    /\ Served /\ hreq.contentType = "application/json; charset=utf-8"
    /\ hreq.path = mutatePath /\ hreq.body.form = "review"
    /\ hres.status = 415 /\ hres.invoked = {}

\* C16: a request with JSON content type whose body is empty or does not
\* parse as an admission review is answered with status 400, and neither
\* the mutate nor the admit function is invoked for it.
C16_BadBodyRejected ==
    (Served /\ JSONContent /\ hreq.body.form \in {"empty", "syntax", "type"}) =>
        /\ hres.status = 400 /\ ~hres.panicked
        /\ hres.invoked = {} /\ ar = NoRequest /\ response = NoResponse

C16_Witness ==
    /\ Served /\ JSONContent /\ hreq.path = mutatePath /\ srv.mutate = "Mutate"
    /\ hreq.body.form = "type" /\ hreq.body.uid = "uid-2"
    /\ hres.status = 400 /\ hres.review.written /\ hres.review.UID = "uid-2"

\* the mutate function returned a response for the review of the request
MutateReturned ==
    /\ Served /\ JSONContent /\ hreq.path = mutatePath
    /\ hreq.body.form = "review"
    /\ "mutate" \in hres.invoked /\ srv.mutate = "Mutate" /\ ~panicked

\* C17: when the mutate function returns a response for a well-formed
\* review, the status is 200 whether the response allows or rejects, the
\* response is written as returned, and a rejection is allowed=false with a
\* message and without patch.
C17_DecisionInBody ==
    MutateReturned =>
        /\ hres.status = 200
        /\ hres.review.written /\ hres.review.Response = response
        /\ ~response.Allowed => (response.Result # Nil /\ NoPatch)

C17_Witness ==
    /\ MutateReturned /\ hres.status = 200
    /\ ~hres.review.Response.Allowed
    /\ hres.review.Response.Result = InstanceError

\* the review the handler parsed carries a request
CarriesRequest == hreq.body.form \in {"review", "type"}

\* C18: every admission review written by the mutate or admit handler for
\* a review that carries a request echoes the UID of that request, in
\* allowed, rejected and error (4xx, 5xx) responses alike.
C18_UIDEcho ==
    (Served /\ hres.review.written /\ CarriesRequest) =>
        (hres.review.UID = hreq.body.uid /\ hres.review.UID \in UIDs)

\* an error response of the mutate handler carries the UID
C18_Witness ==
    /\ Served /\ hreq.path = mutatePath /\ hreq.body.form = "review"
    /\ hres.status = 500 /\ hres.review.written
    /\ ~hres.review.Response.Allowed
    /\ hres.review.UID = "uid-1" /\ hreq.body.uid = "uid-1"

(***************************************************************************)
(* Properties of the certificate life cycle.                               *)
(***************************************************************************)
\* a pair loaded from a certificate and the key that belongs to it
Complete(pair) == pair.cert # NoVersion /\ pair.key = pair.cert

\* the goroutines between Lock and Unlock of certLock
InCriticalSection ==
    {h \in Handshakes : handshake[h].pc \in {"read", "unlock"}}
    \cup (IF watcher.pc \in {"store", "unlock"} THEN {"watcher"} ELSE {})

\* C19: whatever the interleaving of handshakes and watcher, getCert returns
\* a complete key pair, the one stored before a reload or the one stored by
\* it, never a mixture; i.cert is written only by the watcher holding
\* certLock and read only by a handshake holding certLock.
C19_CertSwapAtomic ==
    /\ \A g \in InCriticalSection : certLock = g
    /\ Cardinality(InCriticalSection) <= 1
    /\ proc \in {"serving", "dead"} => Complete(cert)
    /\ \A h \in Handshakes :
          /\ handshake[h].pc = "unlock" => handshake[h].ret = cert
          /\ handshake[h].ret # NoPair =>
                /\ Complete(handshake[h].ret)
                /\ handshake[h].ret.cert <= cert.cert

\* one handshake was answered with the pair of before a reload, another
\* with the reloaded pair
C19_Witness ==
    /\ proc = "serving" /\ cert = [cert |-> 2, key |-> 2]
    /\ \E g, h \in Handshakes :
          /\ handshake[g].ret = [cert |-> 1, key |-> 1]
          /\ handshake[h].ret = cert
          /\ handshake[h].pc = "unlock" /\ watcher.pc = "lock"

\* a handshake is answered from a process that serves
NoHandshakeServed == \A h \in Handshakes : handshake[h] = handshakeIdle

\* C20: a reload that fails ends the process: in no state has the watcher's
\* load failed while the server goes on serving; when the initial load (or
\* the set-up of the watcher) fails, New returns its error, no watcher is
\* started and no handshake is ever served.
C20_ReloadFailureFatal ==
    /\ watcher.err # Nil => (proc = "dead" /\ watcher.pc = "panicked")
    /\ proc = "dead" => watcher.err # Nil
    /\ proc = "failed" => (watcher = watcherOff /\ NoHandshakeServed /\ events = <<>>)
    /\ proc = "new" => (cert = NoPair /\ NoHandshakeServed)

\* the certificate was rotated before its key: the reload failed and the
\* process is gone, after handshakes had been served
C20_Witness ==
    /\ proc = "dead" /\ watcher.err # Nil
    /\ certFile = 2 /\ keyFile = 1 /\ cert = [cert |-> 1, key |-> 1]
    /\ \E h \in Handshakes : handshake[h].ret = cert

\* once the process has ended or New has failed, nothing is served any more
C20_NothingAfterTheEnd ==
    [][(proc \in {"dead", "failed"}) => (UNCHANGED <<cert, handshake, proc>>)]_vars

(***************************************************************************)
(* Robustness of the mutate endpoint, kinds of responses, the builder.     *)
(***************************************************************************)
\* C22: every request that reaches the mutate handler with JSON content
\* type is answered with an HTTP response and the handler does not panic,
\* whatever the body: empty, malformed, an envelope without request, an
\* undecodable payload, a pod spec of any shape.
C22_AlwaysAnswered ==
    (Served /\ JSONContent /\ hreq.path = mutatePath) =>
        (~hres.panicked /\ hres.status # NoStatus)

\* C23: a response the mutate function returns is allowed without Patch and
\* PatchType, or allowed with a non-empty Patch and PatchType JSONPatch, or
\* not allowed with a non-empty message and without Patch and PatchType;
\* Patch is set exactly when PatchType is.
C23_ThreeKinds ==
    (Answered /\ ~panicked) =>
        /\ \/ response.Allowed /\ NoPatch /\ response.Result = Nil
           \/ /\ response.Allowed /\ response.Result = Nil
              /\ BytesLen(response.Patch) > 0 /\ response.PatchType = PatchTypeJSONPatch
           \/ /\ ~response.Allowed /\ NoPatch
              /\ response.Result \notin {Nil, ""}
        /\ response.Patch.isNil <=> response.PatchType = Nil

\* each of the three kinds is the answer to some request; here the patched one
C23_Witness ==
    /\ Answered /\ ~panicked /\ response.Allowed
    /\ Len(response.Patch.jsonPatch) >= 3 /\ response.PatchType = PatchTypeJSONPatch
    /\ ar.Object.kind = "Deployment"

\* C24: the command built is the base command, then the credential flag
\* exactly when a secret name resolves, then the instance flag; the mounts
\* are the scratch mount, then the credentials mount exactly when a secret
\* resolves, then the CA mount exactly when a CA map resolves; the volumes
\* are scratch, then the secret volume of the resolved secret, then the
\* config-map volume of the resolved CA map, under the same conditions.
C24_SidecarBuilder ==
    Mutated =>
        LET secret == Resolved(annotationSecret, opts.DefaultSecretName)
            caMap == Resolved(annotationCaMap, opts.DefaultCertVolume)
            instance == Resolved(annotationInstance, opts.DefaultInstance)
            own == <<ScratchVolume>>
                   \o (IF secret # ""
                       THEN <<[name |-> "sql-service-token-account", kind |-> "secret",
                               ref |-> secret]>>
                       ELSE <<>>)
                   \o (IF caMap # ""
                       THEN <<[name |-> "sql-ca-certificates", kind |-> "configMap",
                               ref |-> caMap]>>
                       ELSE <<>>)
            n == Len(podSpec.volumes)
        IN  /\ Sidecar.command =
                 <<"/cloud_sql_proxy", "-dir=/cloudsql">>
                 \o (IF secret # ""
                     THEN <<"-credential_file=/credentials/credentials.json">> ELSE <<>>)
                 \o <<"-instances=" \o instance \o "=tcp:127.0.0.1:3306">>
            /\ Sidecar.volumeMounts =
                 <<[mountPath |-> "/cloudsql", name |-> "cloudsql"]>>
                 \o (IF secret # ""
                     THEN <<[mountPath |-> "/credentials",
                             name |-> "sql-service-token-account"]>>
                     ELSE <<>>)
                 \o (IF caMap # ""
                     THEN <<[mountPath |-> "/etc/ssl/certs", name |-> "ca-certificates"]>>
                     ELSE <<>>)
            /\ n >= Len(own)
            /\ SubSeq(podSpec.volumes, n - Len(own) + 1, n) = own

\* a secret by default, a CA map by annotation
C24_Witness ==
    /\ Mutated
    /\ ~Annotated(annotationSecret) /\ opts.DefaultSecretName = "db-credentials"
    /\ Annotated(annotationCaMap) /\ ar.Object.annotations[annotationCaMap] = "my-ca"
    /\ Len(Sidecar.command) = 4 /\ Len(Sidecar.volumeMounts) = 3
    /\ Len(podSpec.volumes) = 4

\* C30: in a mutated pod spec every volume mount of the sidecar names a
\* volume of the pod spec, for every secret and CA map setting.
C30_MountsHaveVolumes ==
    Mutated =>
        \A i \in DOMAIN Sidecar.volumeMounts :
            VolumeCount(podSpec, Sidecar.volumeMounts[i].name) >= 1

(***************************************************************************)
(* Frame of mutatePodSpec.                                                 *)
(***************************************************************************)
\* the pod spec mutatePodSpec was first called with
InputSpec == ar.Object.spec

OtherContainers(cs) ==
    LET other(c) == ~matchesProxy(c, currentProxy.container) IN SelectSeq(cs, other)

OtherVolumes(vs) ==
    LET other(v) == ~isReservedVolume(v) IN SelectSeq(vs, other)

\* what one call leaves in place: the containers and volumes it has no
\* reason to remove, in their order
FrameKept ==
    /\ OtherContainers(podSpec.containers) = OtherContainers(InputSpec.containers)
    /\ OtherVolumes(podSpec.volumes) = OtherVolumes(InputSpec.volumes)

\* the sidecar is the last container, its volumes are the last volumes
SidecarPlaced ==
    LET own == currentProxy.volumes
        n == Len(podSpec.volumes)
    IN  /\ podSpec.containers # <<>>
        /\ podSpec.containers[Len(podSpec.containers)] = currentProxy.container
        /\ n >= Len(own)
        /\ SubSeq(podSpec.volumes, n - Len(own) + 1, n) = own

\* C25: mutatePodSpec keeps every container that does not match the sidecar
\* and every volume without reserved name, in their relative order, and
\* places the sidecar container last and the sidecar's volumes after all
\* remaining volumes.
C25_FrameAndPlacement ==
    (pc = "podspec" /\ calls = 1) => (~panicked /\ FrameKept /\ SidecarPlaced)

\* the frame alone, in every state, the state left by a panic included
C25_FrameOnly ==
    (pc = "podspec" /\ calls = 1) => FrameKept

(***************************************************************************)
(* Error bodies and certificate rotation.                                  *)
(***************************************************************************)
\* C28: under a transport error (unreadable or empty body, malformed JSON,
\* no response of the mutate function, error of the admit function) the
\* body written is one admission review carrying the message, and nothing else.
C28_OneEnvelope ==
    (Served /\ JSONContent /\ hres.status \in {400, 406, 500}) =>
        /\ hres.review.written
        /\ hres.review.Response.Result \notin {Nil, ""}
        /\ hres.text = ""

\* C29: while certificate and key are replaced by a matching new pair in
\* two separate writes, in either order, the process keeps running and
\* serves a complete pair.
C29_RotationKeepsRunning ==
    (/\ proc \notin {"new", "failed"}
     /\ certFile \in {1, 2} /\ keyFile \in {1, 2})
    => (proc = "serving" /\ Complete(cert))

(***************************************************************************)
(* Shutdown.                                                               *)
(***************************************************************************)
\* Shutdown has begun on the listener: it accepts nothing any more
Initiated(l) == shutdown[l] \in {"draining", "done", "expired"}

\* C21: once Main has received SIGTERM or SIGINT, Shutdown is started on
\* both listeners, Close returns when the grace period of 15 s has elapsed
\* and not earlier, and the process then exits with status 0; it never
\* exits before Shutdown has begun on both listeners.
C21_Shutdown ==
    /\ [](mainPc \in {"returned", "exited"} =>
            (clock = GracePeriod /\ \A l \in Listeners : Initiated(l)))
    /\ [](exit # NoExit =>
            (exit = "0" /\ signal \in Signals /\ \A l \in Listeners : Initiated(l)))
    /\ [](signal = Nil => mainPc = "receive")
    /\ (signal \in Signals) ~> (exit = "0")

\* SIGINT, a request still in flight on the HTTPS listener when the process exits
C21_Witness ==
    /\ exit = "0" /\ signal = "SIGINT" /\ clock = 15
    /\ listener["https"].inflight = 1 /\ shutdown["https"] \in {"draining", "expired"}
    /\ shutdown["admin"] = "done"

(***************************************************************************)
(* Shared values and independence of calls.                                *)
(***************************************************************************)
\* C26: after any sequence of calls, with any annotations and options, the
\* package-level sidecar container (command and mounts included), volume
\* list and credential and CA volume templates are what they were at start.
C26_TemplatesUnchanged ==
    /\ templates.container =
         [ image |-> "gcr.io/cloudsql-docker/gce-proxy:1.13",
           command |-> <<"/cloud_sql_proxy", "-dir=/cloudsql">>,
           volumeMounts |-> << [mountPath |-> "/cloudsql", name |-> "cloudsql"] >>,
           name |-> "cloud-sql-proxy" ]
    /\ templates.volumes = << [name |-> "cloudsql", kind |-> "emptyDir", ref |-> ""] >>
    /\ templates.credentialsVolume = credentialsVolume
    /\ templates.caCertVolume = caCertVolume

\* a call that built a sidecar with credentials and CA mount has returned,
\* another one has finished, a third holds its copies
C26_Witness ==
    /\ completed >= 1
    /\ opts.DefaultSecretName # ""
    /\ call["a"].pc = "done" /\ ~call["a"].response.Patch.isNil
    /\ call["b"].pc = "copied" /\ ~call["b"].proxy.shared
    /\ annotationCaMap \in DOMAIN call["b"].req.Object.annotations

\* C27: under every interleaving, and after any earlier calls, a call
\* returns what the same request returns alone on a fresh process with the
\* same options.
C27_Independent ==
    \A p \in CallIds :
        call[p].pc = "done" =>
            LET alone == Mutate(opts, call[p].req, call[p].order)
            IN  /\ call[p].response = alone.response
                /\ call[p].panicked = alone.panicked

\* two overlapping calls for different requests after an earlier call, one
\* of them with a secret of its own
C27_Witness ==
    /\ completed >= 1
    /\ call["a"].pc = "done" /\ call["b"].pc = "done"
    /\ call["a"].req # call["b"].req
    /\ ~call["a"].response.Patch.isNil /\ ~call["b"].response.Patch.isNil
    /\ annotationSecret \in DOMAIN call["a"].req.Object.annotations
    /\ call["b"].req.Object.kind = "Deployment"

====
